---- MODULE Spec2Model ----
(***************************************************************************)
(* DICOM-Meta-Data-Extractor: the element tree, the metadata flattener     *)
(* (CImage.extract_dicom_metadata), the validity classifier and the        *)
(* anonymizer (CImage.__init__), the summary row                           *)
(* (CImage.get_patient_and_physician) and the per-file pipeline of         *)
(* parse_study_dirs.                                                       *)
(*                                                                         *)
(* A value is a sequence of component strings: a scalar s of the decoder   *)
(* is <<s>>, a multi-valued element is the sequence of its components.     *)
(* A dataset is the sequence of its elements in ascending tag order, which *)
(* is the order in which the decoder iterates a dataset.                   *)
(***************************************************************************)
EXTENDS Integers, Sequences, FiniteSets, TLC

VARIABLES
    dset,               \* flattener: self.data of the instance being flattened
    include_private,    \* flattener: parameter
    include_pixel_data, \* flattener: parameter
    max_value_length,   \* flattener: parameter
    results,            \* flattener: the returned list
    fpc,                \* flattener: "call" before, "returned" after the call
    disk,               \* the tree dcmread gives for the file being processed
    logfile,            \* the lines written to the log sink
    out_files,          \* the trees save_as has written: [path, data]
    ananomize_file,     \* constructor on its own: parameter
    img,                \* constructor on its own: the instance
    raised,             \* constructor on its own: the exception that left the call
    cpc,                \* constructor on its own: position
    row,                \* constructor on its own: the summary row returned
    root_dir_exists,    \* pipeline: os.path.exists(root_dir)
    ananomize_dcm,      \* pipeline: parameter
    files,              \* pipeline: the files os.walk(root_dir) yields, in order
    fidx,               \* pipeline: how many of them the loop has taken
    dicom_file_count,   \* pipeline: local
    orgDCM,             \* pipeline: local
    anoDCM,             \* pipeline: local
    _original_list,     \* pipeline: local
    _ananomized_list,   \* pipeline: local
    series_dict,        \* pipeline: local, the groups in insertion order
    folders,            \* pipeline: the directories create_folder has made
    json_files,         \* pipeline: the metadata exports written: [path, meta]
    log_open,           \* pipeline: the log sink is open
    tables,             \* pipeline: the tables written: [path, rows]
    ret,                \* pipeline: what the call returned or raised
    ppc                 \* pipeline: position in parse_study_dirs

fvars == <<dset, include_private, include_pixel_data, max_value_length, results, fpc>>

cvars == <<disk, logfile, out_files, ananomize_file, img, raised, cpc, row>>

pvars == <<root_dir_exists, ananomize_dcm, files, fidx, dicom_file_count, orgDCM,
           anoDCM, _original_list, _ananomized_list, series_dict, folders,
           json_files, log_open, tables, ret, ppc>>

vars == <<fvars, cvars, pvars>>

\* no instance (Python's None)
None == [none |-> TRUE]

(***************************************************************************)
(* Bounds of the model.                                                    *)
(***************************************************************************)
MaxItems == 2

\* the most files a source directory holds
MaxFiles == 2

(***************************************************************************)
(* The element model.                                                      *)
(***************************************************************************)
NoRaise == [raises |-> FALSE, at |-> 0]

RaiseAt(k) == [raises |-> TRUE, at |-> k]

\* A non-sequence element. keyword and name are what the decoder's dictionary
\* gives for the tag ("" when it has none).
Elem(g, e, vr, kw, nm, val) ==
    [group |-> g, element |-> e, VR |-> vr, keyword |-> kw, name |-> nm,
     value |-> val, items |-> <<>>, fail |-> NoRaise]

\* A non-sequence element whose value raises when it is turned into a string
\* (a person name in an encoding the decoder cannot decode).
UnprintableElem(g, e, vr, kw, nm, val) ==
    [Elem(g, e, vr, kw, nm, val) EXCEPT !.fail = RaiseAt(0)]

\* A sequence element: items is its list of datasets; fail says whether
\* iterating the items raises, and at which item index (zero-based) it does.
SeqElem(g, e, kw, nm, its, fl) ==
    [group |-> g, element |-> e, VR |-> "SQ", keyword |-> kw, name |-> nm,
     value |-> <<>>, items |-> its, fail |-> fl]

TagOf(elem) == <<elem.group, elem.element>>

TagLess(s, t) == s[1] < t[1] \/ (s[1] = t[1] /\ s[2] < t[2])

PixelDataTag == <<\h7FE0, \h0010>>

\* elem.VM: the number of components, and of items for a sequence.
VM(elem) == IF elem.VR = "SQ" THEN Len(elem.items) ELSE Len(elem.value)

\* Dataset.__setitem__ of an element: it replaces the element of the same tag
\* or takes its place in the tag order.
SetElement(ds, elem) ==
    SelectSeq(ds, LAMBDA e : TagLess(TagOf(e), TagOf(elem)))
        \o <<elem>>
        \o SelectSeq(ds, LAMBDA e : TagLess(TagOf(elem), TagOf(e)))

\* The elements of set S (pairwise distinct tags) as a dataset.
RECURSIVE SortByTag(_)
SortByTag(S) ==
    IF S = {} THEN <<>>
    ELSE LET x == CHOOSE y \in S : TRUE
         IN  SetElement(SortByTag(S \ {x}), x)

(***************************************************************************)
(* extract_dicom_metadata                                                  *)
(***************************************************************************)
HexDigits == <<"0", "1", "2", "3", "4", "5", "6", "7",
               "8", "9", "A", "B", "C", "D", "E", "F">>

\* f"{n:04X}" of a 16-bit number
Hex4(n) ==
    HexDigits[((n \div 4096) % 16) + 1] \o HexDigits[((n \div 256) % 16) + 1]
        \o HexDigits[((n \div 16) % 16) + 1] \o HexDigits[(n % 16) + 1]

_format_tag(tag) == "(" \o Hex4(tag[1]) \o "," \o Hex4(tag[2]) \o ")"

_is_private(elem) == (elem.group % 2) = 1

_keyword(elem) == elem.keyword

_name_or_keyword(elem) ==
    IF elem.name # "" THEN elem.name ELSE elem.keyword

\* str(v) of a decoded value: a scalar prints as itself, a multi-valued
\* element (the decoder's MultiValue, which is no list or tuple) as
\* "['a', 'b']", an empty one as "".
RECURSIVE ReprJoin(_)
ReprJoin(v) ==
    IF Len(v) = 0 THEN ""
    ELSE IF Len(v) = 1 THEN "'" \o v[1] \o "'"
    ELSE "'" \o v[1] \o "', " \o ReprJoin(Tail(v))

StrOfValue(v) ==
    IF Len(v) = 1 THEN v[1]
    ELSE IF Len(v) = 0 THEN ""
    ELSE "[" \o ReprJoin(v) \o "]"

\* The one-character ellipsis U+2026 appended to a truncated value.
Ellipsis == "~"

TruncateNoEllipsis(s, maxlen) ==
    IF Len(s) > maxlen THEN SubSeq(s, 1, maxlen) ELSE s

\* "if len(s) > max_value_length: s = s[:max_value_length] + ellipsis"
Truncate(s, maxlen) ==
    IF Len(s) > maxlen THEN SubSeq(s, 1, maxlen) \o Ellipsis ELSE s

\* The message of the exception raised by str(v).
StrErrorText == "bad value"

UnprintableBare(e) == e

\* The except branch of the formatter: s = f"<unprintable: {e}>"
Unprintable(e) == "<unprintable: " \o e \o ">"

\* The try block of the formatter: the string of the value, or the
\* string of the except branch when reading or str() raises.
Stringified(elem) ==
    IF elem.fail.raises THEN Unprintable(StrErrorText)
    ELSE StrOfValue(elem.value)

_value_to_str(elem, incl_pixel, maxlen) ==
    IF elem.VR = "SQ" THEN "<Sequence>"
    ELSE IF TagOf(elem) = PixelDataTag /\ ~incl_pixel THEN "<PixelData omitted>"
    ELSE Truncate(Stringified(elem), maxlen)

PathLabel(elem) ==
    IF _keyword(elem) # "" THEN _keyword(elem)
    ELSE IF _name_or_keyword(elem) # "" THEN _name_or_keyword(elem)
    ELSE _format_tag(TagOf(elem))

EntryPath(elem, base_path) ==
    (IF base_path # "" THEN base_path \o "." ELSE "") \o PathLabel(elem)

\* One appended dict. pos is not a key of the dict: it records the place of
\* the element in the tree (element index, item index, element index, ...)
\* and synthetic that the dict is the one appended by the except branch.
Entry(elem, base_path, val_str, pos, syn) ==
    [path |-> EntryPath(elem, base_path),
     tag |-> _format_tag(TagOf(elem)),
     group |-> elem.group,
     element |-> elem.element,
     vr |-> elem.VR,
     name |-> _name_or_keyword(elem),
     keyword |-> _keyword(elem),
     value |-> val_str,
     vm |-> VM(elem),
     private |-> _is_private(elem),
     pos |-> pos,
     synthetic |-> syn]

\* The message of the exception raised by the item iteration.
SeqErrorText == "bad item"

\* The number of items the loop "for i, item in enumerate(seq)" reaches
\* before it ends or raises.
ItemsReached(elem) ==
    IF elem.fail.raises /\ elem.fail.at < Len(elem.items)
    THEN elem.fail.at ELSE Len(elem.items)

IterationRaises(elem) == elem.fail.raises

SkipElementWrongParity(elem, incl_priv) == (elem.group % 2) = 0 /\ ~incl_priv

\* "if _is_private(elem) and not include_private: continue"
SkipElement(elem, incl_priv) == _is_private(elem) /\ ~incl_priv

ItemBasePathOneBased(path, i) == path \o "[" \o ToString(i + 1) \o "]"

\* base_path handed to the walk of item i
ItemBasePath(path, i) == path \o "[" \o ToString(i) \o "]"

ElemRecordsPostOrder(entry, sub) == sub \o <<entry>>

\* results.append(entry) comes before the recursion into the items
ElemRecords(entry, sub) == <<entry>> \o sub

ExceptBranchSilent(elem, base_path, here) == <<>>

ExceptBranchPlainValue(elem, base_path, here) ==
    <<Entry(elem, base_path, "<Sequence>", here, TRUE)>>

\* The except branch: one more dict for the element, with the error as value.
ExceptBranch(elem, base_path, here) ==
    <<Entry(elem, base_path, "<sequence read error: " \o SeqErrorText \o ">",
            here, TRUE)>>

RECURSIVE _walk(_, _, _, _, _, _)
RECURSIVE WalkItems(_, _, _, _, _, _, _)
\* The records appended for elements k..Len(ds) of dataset ds.
_walk(ds, k, base_path, pos, incl_priv, flags) ==
    IF k > Len(ds) THEN <<>>
    ELSE LET elem == ds[k]
             here == Append(pos, k)
             val_str == IF TagOf(elem) = PixelDataTag /\ ~flags.pixel
                        THEN "<PixelData omitted>"
                        ELSE _value_to_str(elem, flags.pixel, flags.maxlen)
             entry == Entry(elem, base_path, val_str, here, FALSE)
             sub == IF elem.VR = "SQ"
                    THEN WalkItems(elem, 0, entry.path, here, incl_priv, flags, base_path)
                    ELSE <<>>
         IN  IF SkipElement(elem, incl_priv)
             THEN _walk(ds, k + 1, base_path, pos, incl_priv, flags)
             ELSE ElemRecords(entry, sub)
                  \o _walk(ds, k + 1, base_path, pos, incl_priv, flags)

\* The try block of a sequence element: items i.. are walked in turn; when
\* the iteration raises, the except branch appends the synthetic record.
WalkItems(elem, i, path, here, incl_priv, flags, base_path) ==
    IF i < ItemsReached(elem)
    THEN _walk(elem.items[i + 1], 1, ItemBasePath(path, i),
               Append(here, i), incl_priv, flags)
         \o WalkItems(elem, i + 1, path, here, incl_priv, flags, base_path)
    ELSE IF IterationRaises(elem)
    THEN ExceptBranch(elem, base_path, here)
    ELSE <<>>

extract_dicom_metadata(data, incl_priv, incl_pixel, maxlen) ==
    _walk(data, 1, "", <<>>, incl_priv, [pixel |-> incl_pixel, maxlen |-> maxlen])

(***************************************************************************)
(* Dataset access by tag, as the decoder gives it.                         *)
(***************************************************************************)
\* "tag in ds"
Has(ds, tag) == \E k \in 1..Len(ds) : TagOf(ds[k]) = tag

\* "ds[tag]" of a present tag
Get(ds, tag) == ds[CHOOSE k \in 1..Len(ds) : TagOf(ds[k]) = tag]

\* "ds[tag].value = v" of a present tag
SetValue(ds, tag, v) ==
    [k \in 1..Len(ds) |->
        IF TagOf(ds[k]) = tag THEN [ds[k] EXCEPT !.value = v] ELSE ds[k]]

remove_private_tags_TopLevelOnly(ds) == SelectSeq(ds, LAMBDA e : ~((e.group % 2) = 1))

RECURSIVE remove_private_tags(_)
\* Dataset.remove_private_tags(): walks the dataset and the items of every
\* sequence in it, deleting each element whose tag is private (odd group).
remove_private_tags(ds) ==
    LET kept == SelectSeq(ds, LAMBDA e : ~((e.group % 2) = 1))
    IN  [k \in 1..Len(kept) |->
            [kept[k] EXCEPT
                !.items = [i \in 1..Len(kept[k].items) |->
                              remove_private_tags(kept[k].items[i])]]]

(***************************************************************************)
(* CImage.__init__                                                         *)
(***************************************************************************)
exeption_list ==
    { <<"DERIVED", "SECONDARY", "PATIENT_INFO">>,
      <<"ORIGINAL", "PRIMARY", "LOCALIZER">>,
      <<"DERIVED", "SECONDARY", "DOSE_INFO">>,
      <<"DERIVED", "SECONDARY", "EXECUTED_SURVIEW">>,
      <<"DERIVED", "SECONDARY", "REF_SURVIEW">> }

\* an attribute the constructor has not set
Unset == <<>>

\* the attribute defaults of lines 44-70; the attributes set only on some
\* paths start Unset
NewInstance(tree) ==
    [valid |-> FALSE, data |-> tree,
     _modality |-> Unset,
     _study_description |-> <<"">>, _series_description |-> <<"">>,
     _man_modelname |-> <<"">>, _manufacturer |-> <<"">>,
     _study_reason |-> <<"">>, _study_comments |-> <<"">>,
     _cur_patient_location |-> <<"">>, _patient_history |-> <<"">>,
     _institutename |-> <<"">>, _instituteaddress |-> <<"">>,
     _physicianname |-> <<"">>, _performing_physician |-> <<"">>,
     _stationname |-> <<"">>, _operatorsname |-> <<"">>,
     _patientname |-> <<"">>, _patientID |-> <<"">>, _patientbirth |-> <<"">>,
     _patientsex |-> <<"">>, _patientsize |-> <<"">>, _patientweight |-> <<"">>,
     _patient_address |-> <<"">>,
     _patientLocation |-> Unset, voxelsize |-> Unset, slope |-> Unset,
     intercept |-> Unset, pat_name |-> Unset, pat_id |-> Unset,
     studydate |-> Unset, imagesize |-> Unset, datatype |-> Unset]

\* the tags the program names, (group, element)
T_ImageType == <<\h0008, \h0008>>
T_StudyDate == <<\h0008, \h0020>>
T_AccessionNumber == <<\h0008, \h0050>>
T_Modality == <<\h0008, \h0060>>
T_Manufacturer == <<\h0008, \h0070>>
T_InstitutionName == <<\h0008, \h0080>>
T_InstitutionAddress == <<\h0008, \h0081>>
T_ReferringPhysicianName == <<\h0008, \h0090>>
T_StationName == <<\h0008, \h1010>>
T_StudyDescription == <<\h0008, \h1030>>
T_SeriesDescription == <<\h0008, \h103E>>
T_PerformingPhysicianName == <<\h0008, \h1050>>
T_OperatorsName == <<\h0008, \h1070>>
T_PatientName == <<\h0010, \h0010>>
T_PatientID == <<\h0010, \h0020>>
T_PatientBirthDate == <<\h0010, \h0030>>
T_PatientSex == <<\h0010, \h0040>>
T_PatientSize == <<\h0010, \h1020>>
T_PatientWeight == <<\h0010, \h1030>>
T_PatientAddress == <<\h0010, \h1040>>
T_PatientHistory == <<\h0010, \h21B0>>
T_SliceThickness == <<\h0018, \h0050>>
T_ContributingEquipment == <<\h0018, \hA001>>
T_SeriesInstanceUID == <<\h0020, \h000E>>
T_ImagePositionPatient == <<\h0020, \h0032>>
T_Rows == <<\h0028, \h0010>>
T_Columns == <<\h0028, \h0011>>
T_PixelSpacing == <<\h0028, \h0030>>
T_BitsAllocated == <<\h0028, \h0100>>
T_RescaleIntercept == <<\h0028, \h1052>>
T_RescaleSlope == <<\h0028, \h1053>>
T_ReasonForStudy == <<\h0032, \h1030>>
T_StudyComments == <<\h0032, \h4000>>
T_CurrentPatientLocation == <<\h0038, \h0300>>
T_ModifiedAttributes == <<\h0400, \h0550>>
T_OriginalAttributes == <<\h0400, \h0561>>
T_SourceOfPreviousValues == <<\h0400, \h0564>>

\* lines 72-137 in order: "if tag in self.data: self.<attr> = self.data[tag].value"
InitialReads ==
    << <<T_StudyDescription, "_study_description">>,
       <<T_SeriesDescription, "_series_description">>,
       <<T_Modality, "_modality">>,
       <<T_Manufacturer, "_manufacturer">>,
       <<T_InstitutionName, "_institutename">>,
       <<T_InstitutionAddress, "_instituteaddress">>,
       <<T_ReferringPhysicianName, "_physicianname">>,
       <<T_StationName, "_stationname">>,
       <<T_PerformingPhysicianName, "_performing_physician">>,
       <<T_OperatorsName, "_operatorsname">>,
       <<T_PatientName, "_patientname">>,
       <<T_PatientID, "_patientID">>,
       <<T_PatientAddress, "_patient_address">>,
       <<T_CurrentPatientLocation, "_patientLocation">>,
       <<T_PatientBirthDate, "_patientbirth">>,
       <<T_PatientSex, "_patientsex">>,
       <<T_PatientSize, "_patientsize">>,
       <<T_PatientWeight, "_patientweight">>,
       <<T_ReasonForStudy, "_study_reason">>,
       <<T_StudyComments, "_study_comments">>,
       <<T_CurrentPatientLocation, "_cur_patient_location">>,
       <<T_PatientHistory, "_patient_history">> >>

\* line 101: the operator name of the tree is overwritten while it is read
OperatorReadPlaceholder == <<"Anonym Operator">>

RECURSIVE ReadFields(_, _)
\* entries k.. of InitialReads applied to the instance
ReadFields(inst, k) ==
    IF k > Len(InitialReads) THEN inst
    ELSE LET tag == InitialReads[k][1]
             attr == InitialReads[k][2]
             read == IF Has(inst.data, tag)
                     THEN [inst EXCEPT ![attr] = Get(inst.data, tag).value]
                     ELSE inst
             wrote == IF tag = T_OperatorsName /\ Has(inst.data, tag)
                      THEN [read EXCEPT !.data =
                                SetValue(read.data, tag, OperatorReadPlaceholder)]
                      ELSE read
         IN  ReadFields(wrote, k + 1)

NoException == ""

\* the modalities whose geometry is derived (line 144)
VolumetricModalities == { <<"CT">>, <<"MRT">>, <<"MR">> }

SliceThicknessElem(v) ==
    Elem(\h0018, \h0050, "DS", "SliceThickness", "Slice Thickness", v)

\* lines 142-150, the body of the try block: the attributes it has set when
\* it ends or raises, and the exception it raised
DeriveGeometry(inst) ==
    LET d == inst.data
        vol == inst._modality \in VolumetricModalities
        ct == inst._modality = <<"CT">>
        ippOk == Has(d, T_ImagePositionPatient)
                    /\ Len(Get(d, T_ImagePositionPatient).value) >= 3
        psOk == Has(d, T_PixelSpacing) /\ Len(Get(d, T_PixelSpacing).value) >= 2
        thickness == IF vol THEN <<"0.0">> ELSE <<"1.0">>
        withVoxel == IF vol
                     THEN [inst EXCEPT !.voxelsize =
                              <<Get(d, T_PixelSpacing).value[1],
                                Get(d, T_PixelSpacing).value[2], "0.0">>]
                     ELSE inst
        withSlope == [withVoxel EXCEPT !.slope = Get(d, T_RescaleSlope).value]
        withBoth == [withSlope EXCEPT !.intercept = Get(d, T_RescaleIntercept).value]
    IN  IF vol /\ ~ippOk
        THEN [exc |-> IF Has(d, T_ImagePositionPatient) THEN "IndexError"
                      ELSE "AttributeError",
              self |-> inst, thickness |-> thickness]
        ELSE IF vol /\ ~psOk
        THEN [exc |-> IF Has(d, T_PixelSpacing) THEN "IndexError" ELSE "AttributeError",
              self |-> inst, thickness |-> thickness]
        ELSE IF ~ct
        THEN [exc |-> NoException, self |-> withVoxel, thickness |-> thickness]
        ELSE IF ~Has(d, T_RescaleSlope)
        THEN [exc |-> "AttributeError", self |-> withVoxel, thickness |-> thickness]
        ELSE IF ~Has(d, T_RescaleIntercept)
        THEN [exc |-> "AttributeError", self |-> withSlope, thickness |-> thickness]
        ELSE [exc |-> NoException, self |-> withBoth, thickness |-> thickness]

\* lines 162-172: the fields read as attributes of the dataset, each raising
\* AttributeError when the tree lacks it (the instance under construction is
\* then lost to the caller)
RequiredFields ==
    <<T_PatientName, T_PatientID, T_StudyDate, T_Rows, T_Columns, T_BitsAllocated>>

PopulateRequired(inst) ==
    LET d == inst.data
    IN  IF \E k \in 1..Len(RequiredFields) : ~Has(d, RequiredFields[k])
        THEN [exc |-> "AttributeError", self |-> inst]
        ELSE [exc |-> NoException,
              self |->
                [inst EXCEPT
                    !.pat_name = Get(d, T_PatientName).value,
                    !.pat_id = Get(d, T_PatientID).value,
                    !.studydate = Get(d, T_StudyDate).value,
                    !.imagesize = <<Get(d, T_Rows).value[1],
                                    Get(d, T_Columns).value[1], "1">>,
                    !.datatype = <<"uint" \o Get(d, T_BitsAllocated).value[1]>>,
                    !.valid = TRUE]]

\* lines 139-180. returned says that the constructor returned early (the
\* instance is Invalid); exc is the exception that leaves the constructor.
Classify(inst) ==
    IF ~Has(inst.data, T_ImageType)
    THEN [exc |-> NoException, returned |-> TRUE, self |-> [inst EXCEPT !.valid = FALSE]]
    ELSE IF Get(inst.data, T_ImageType).value \in exeption_list
    THEN [exc |-> NoException, returned |-> TRUE, self |-> [inst EXCEPT !.valid = FALSE]]
    ELSE IF inst._modality # <<"SEG">>
    THEN LET g == DeriveGeometry(inst)
             thick == [g.self EXCEPT !.data =
                          SetElement(g.self.data, SliceThicknessElem(g.thickness))]
             r == PopulateRequired(thick)
         IN  IF g.exc # NoException
             THEN [exc |-> NoException, returned |-> TRUE,
                   self |-> [g.self EXCEPT !.valid = FALSE]]
             ELSE [exc |-> r.exc, returned |-> FALSE, self |-> r.self]
    ELSE LET thick == [inst EXCEPT !.data =
                          SetElement(inst.data, SliceThicknessElem(<<"0">>))]
             r == PopulateRequired(thick)
         IN  [exc |-> r.exc, returned |-> FALSE, self |-> r.self]

(***************************************************************************)
(* The nested structured-report pass, lines 182-248.                       *)
(***************************************************************************)
\* "ds[ctag]._value._list[0] = item" spelled as a new dataset
WithItem0(ds, ctag, item) ==
    [k \in 1..Len(ds) |->
        IF TagOf(ds[k]) = ctag
        THEN [ds[k] EXCEPT !.items = [ds[k].items EXCEPT ![1] = item]]
        ELSE ds[k]]

\* the exception raised by "ds[ctag]._value._list[0][leaf]", "" when none
Item0LeafError(ds, ctag, leaf) ==
    IF ~Has(ds, ctag) THEN "KeyError"
    ELSE IF Len(Get(ds, ctag).items) = 0 THEN "IndexError"
    ELSE IF ~Has(Get(ds, ctag).items[1], leaf) THEN "KeyError"
    ELSE NoException

\* "ds[ctag]._value._list[0][leaf].value = v" when it does not raise
SetItem0Leaf(ds, ctag, leaf, v) ==
    WithItem0(ds, ctag, SetValue(Get(ds, ctag).items[1], leaf, v))

\* the same through "[(0400,0550)]._value._list[0]" inside the first item
DeepLeafError(ds, ctag, leaf) ==
    IF Item0LeafError(ds, ctag, T_ModifiedAttributes) # NoException
    THEN Item0LeafError(ds, ctag, T_ModifiedAttributes)
    ELSE Item0LeafError(Get(ds, ctag).items[1], T_ModifiedAttributes, leaf)

SetDeepLeaf(ds, ctag, leaf, v) ==
    WithItem0(ds, ctag,
              SetItem0Leaf(Get(ds, ctag).items[1], T_ModifiedAttributes, leaf, v))

\* lines 185-187: the two overwrites inside the exposure container; they are
\* inside no try block but the outer one, which catches OSError only
ExposurePass(d) ==
    IF ~Has(d, T_ContributingEquipment) THEN [exc |-> NoException, data |-> d]
    ELSE IF Item0LeafError(d, T_ContributingEquipment, T_Manufacturer) # NoException
    THEN [exc |-> Item0LeafError(d, T_ContributingEquipment, T_Manufacturer),
          data |-> d]
    ELSE LET d1 == SetItem0Leaf(d, T_ContributingEquipment, T_Manufacturer,
                                <<"Anonymized Manufacturer">>)
         IN  IF Item0LeafError(d1, T_ContributingEquipment, T_InstitutionName)
                    # NoException
             THEN [exc |-> Item0LeafError(d1, T_ContributingEquipment,
                                          T_InstitutionName),
                   data |-> d1]
             ELSE [exc |-> NoException,
                   data |-> SetItem0Leaf(d1, T_ContributingEquipment,
                                         T_InstitutionName,
                                         <<"Anonymized Institutename">>)]

\* lines 192-245: the six targets inside the previous-values container, in
\* order; res says that the ERROR line names _res_file_path, not path
PrevTargets ==
    << [leaf |-> T_AccessionNumber, deep |-> TRUE, ph |-> <<"0123456789">>,
        res |-> FALSE],
       [leaf |-> T_ReferringPhysicianName, deep |-> TRUE,
        ph |-> <<"Anonymized Physician">>, res |-> FALSE],
       [leaf |-> T_PatientName, deep |-> TRUE, ph |-> <<"Anonymized Patient">>,
        res |-> FALSE],
       [leaf |-> T_PatientID, deep |-> TRUE, ph |-> <<"Anonymized PatID">>,
        res |-> FALSE],
       [leaf |-> T_CurrentPatientLocation, deep |-> TRUE,
        ph |-> <<"Anonymized Pat Location">>, res |-> TRUE],
       [leaf |-> T_SourceOfPreviousValues, deep |-> FALSE,
        ph |-> <<"Anonymized Source of Previous Values">>, res |-> FALSE] >>

PrevTargetError(d, t) ==
    IF t.deep THEN DeepLeafError(d, T_OriginalAttributes, t.leaf)
    ELSE Item0LeafError(d, T_OriginalAttributes, t.leaf)

\* the two lines an except branch writes to _logfile
ErrorLines(t, e, path, res_path) ==
    IF t.res THEN <<"ERROR: " \o res_path, "EXCEPTION: " \o e>>
    ELSE <<"ERROR: " \o path, "EXCEPTION " \o e>>

\* one try block: the overwrite, or the two log lines of its except branch
TryTarget(st, t, path, res_path) ==
    LET e == PrevTargetError(st.data, t)
    IN  IF e # NoException
        THEN [st EXCEPT !.log = st.log \o ErrorLines(t, e, path, res_path)]
        ELSE [st EXCEPT !.data =
                 IF t.deep THEN SetDeepLeaf(st.data, T_OriginalAttributes, t.leaf, t.ph)
                 ELSE SetItem0Leaf(st.data, T_OriginalAttributes, t.leaf, t.ph)]

RECURSIVE TryTargets(_, _, _, _)
TryTargets(st, k, path, res_path) ==
    IF k > Len(PrevTargets) THEN st
    ELSE TryTargets(TryTarget(st, PrevTargets[k], path, res_path), k + 1,
                    path, res_path)

\* lines 183-248: exc is the exception that leaves the constructor
NestedPass(d, log, path, res_path) ==
    LET x == ExposurePass(d)
    IN  IF x.exc # NoException
        THEN [exc |-> x.exc, data |-> x.data, log |-> log]
        ELSE IF ~Has(x.data, T_OriginalAttributes)
        THEN [exc |-> NoException, data |-> x.data, log |-> log]
        ELSE TryTargets([exc |-> NoException, data |-> x.data, log |-> log], 1,
                        path, res_path)

(***************************************************************************)
(* The direct-field pass, lines 252-313.                                   *)
(***************************************************************************)
\* in order: tag, attribute, placeholder; the birth date is read, not written
DirectFields ==
    << [tag |-> T_InstitutionName, attr |-> "_institutename", write |-> TRUE,
        ph |-> <<"Anonymized Institute">>],
       [tag |-> T_InstitutionAddress, attr |-> "_instituteaddress", write |-> TRUE,
        ph |-> <<"Anonymized Instituteaddress">>],
       [tag |-> T_ReferringPhysicianName, attr |-> "_physicianname", write |-> TRUE,
        ph |-> <<"Anonymized Physician">>],
       [tag |-> T_StationName, attr |-> "_stationname", write |-> TRUE,
        ph |-> <<"Anonymized Station">>],
       [tag |-> T_PerformingPhysicianName, attr |-> "_performing_physician",
        write |-> TRUE, ph |-> <<"Anomized perf. Physician">>],
       [tag |-> T_OperatorsName, attr |-> "_operatorsname", write |-> TRUE,
        ph |-> <<"Anonymized Operator">>],
       [tag |-> T_PatientName, attr |-> "_patientname", write |-> TRUE,
        ph |-> <<"Anonymized Patient">>],
       [tag |-> T_PatientAddress, attr |-> "_patient_address", write |-> TRUE,
        ph |-> <<"Anonymized Patient Address">>],
       [tag |-> T_PatientBirthDate, attr |-> "_patientbirth", write |-> FALSE,
        ph |-> <<"">>],
       [tag |-> T_PatientSex, attr |-> "_patientsex", write |-> TRUE, ph |-> <<"O">>],
       [tag |-> T_PatientSize, attr |-> "_patientsize", write |-> TRUE,
        ph |-> <<"1.80">>],
       [tag |-> T_PatientWeight, attr |-> "_patientweight", write |-> TRUE,
        ph |-> <<"80">>],
       [tag |-> T_ReasonForStudy, attr |-> "_study_reason", write |-> TRUE,
        ph |-> <<"Anonymized Reason">>],
       [tag |-> T_StudyComments, attr |-> "_study_comments", write |-> TRUE,
        ph |-> <<"Anonymized Patient Comments">>],
       [tag |-> T_CurrentPatientLocation, attr |-> "_cur_patient_location",
        write |-> TRUE, ph |-> <<"Anonymized Patient Location">>],
       [tag |-> T_PatientHistory, attr |-> "_patient_history", write |-> TRUE,
        ph |-> <<"Anonymized Patient History">>] >>

DirectFieldFromCurrent(inst, f) ==
    IF ~Has(inst.data, f.tag) THEN inst
    ELSE LET d == IF f.write
                  THEN SetValue(inst.data, f.tag,
                                <<"Anonymized " \o Get(inst.data, f.tag).value[1]>>)
                  ELSE inst.data
         IN  [inst EXCEPT !.data = d, ![f.attr] = Get(d, f.tag).value]

\* one "if tag in self.data:" block
DirectField(inst, f) ==
    IF ~Has(inst.data, f.tag) THEN inst
    ELSE LET d == IF f.write THEN SetValue(inst.data, f.tag, f.ph) ELSE inst.data
         IN  [inst EXCEPT !.data = d, ![f.attr] = Get(d, f.tag).value]

RECURSIVE DirectPass(_, _)
DirectPass(inst, k) ==
    IF k > Len(DirectFields) THEN inst
    ELSE DirectPass(DirectField(inst, DirectFields[k]), k + 1)

(***************************************************************************)
(* The constructor as a whole. writable says whether save_as succeeds.     *)
(* The result: exc, the exception that leaves the constructor ("" when it  *)
(* returns); self, the instance; log, the log sink; saved, whether save_as *)
(* wrote self.data to _res_file_path.                                      *)
(***************************************************************************)
CImage__init__(tree, path, res_path, log, anonymize, writable) ==
    LET fresh == NewInstance(tree)
        read == ReadFields([fresh EXCEPT !._modality = Get(tree, T_Modality).value], 1)
        c == Classify(read)
        n == NestedPass(c.self.data, log, path, res_path)
        stripped == [c.self EXCEPT !.data = remove_private_tags(n.data)]
        direct == DirectPass(stripped, 1)
    IN  IF ~Has(tree, T_Modality)
        THEN [exc |-> "AttributeError", self |-> fresh, log |-> log, saved |-> FALSE]
        ELSE IF c.exc # NoException \/ c.returned \/ ~anonymize
        THEN [exc |-> c.exc, self |-> c.self, log |-> log, saved |-> FALSE]
        ELSE IF n.exc # NoException
        THEN [exc |-> n.exc, self |-> [c.self EXCEPT !.data = n.data],
              log |-> n.log, saved |-> FALSE]
        ELSE IF ~writable
        THEN [exc |-> "OSError", self |-> direct, log |-> n.log, saved |-> FALSE]
        ELSE [exc |-> NoException, self |-> direct, log |-> n.log, saved |-> TRUE]

(***************************************************************************)
(* CImage.get_patient_and_physician                                        *)
(***************************************************************************)
NotDetermined == <<"n.d.">>

\* lines 483-485: "x = ds[...].value = literal" binds the literal to the local
\* and stores it in the tree; a missing item or leaf raises out of the method
ReadExposure(d) ==
    IF ~Has(d, T_ContributingEquipment)
    THEN [exc |-> NoException, data |-> d, manufacturer |-> NotDetermined,
          institute |-> NotDetermined]
    ELSE IF Item0LeafError(d, T_ContributingEquipment, T_Manufacturer) # NoException
    THEN [exc |-> Item0LeafError(d, T_ContributingEquipment, T_Manufacturer),
          data |-> d, manufacturer |-> NotDetermined, institute |-> NotDetermined]
    ELSE LET d1 == SetItem0Leaf(d, T_ContributingEquipment, T_Manufacturer,
                                <<"Anonymized Manufacturer">>)
         IN  IF Item0LeafError(d1, T_ContributingEquipment, T_InstitutionName)
                    # NoException
             THEN [exc |-> Item0LeafError(d1, T_ContributingEquipment,
                                          T_InstitutionName),
                   data |-> d1, manufacturer |-> <<"Anonymized Manufacturer">>,
                   institute |-> NotDetermined]
             ELSE [exc |-> NoException,
                   data |-> SetItem0Leaf(d1, T_ContributingEquipment,
                                         T_InstitutionName,
                                         <<"Anonymized Institutename">>),
                   manufacturer |-> <<"Anonymized Manufacturer">>,
                   institute |-> <<"Anonymized Institutename">>]

\* one try block of lines 489-523 and 530-537: the value read, or the default
\* and the two log lines
ReadPrev(d, deep, leaf, default) ==
    LET e == IF deep THEN DeepLeafError(d, T_OriginalAttributes, leaf)
             ELSE Item0LeafError(d, T_OriginalAttributes, leaf)
        item == Get(d, T_OriginalAttributes).items[1]
    IN  IF e # NoException THEN [value |-> default, exc |-> e]
        ELSE [value |-> IF deep
                        THEN Get(Get(item, T_ModifiedAttributes).items[1], leaf).value
                        ELSE Get(item, leaf).value,
              exc |-> NoException]

RowLogLines(r, path) ==
    IF r.exc = NoException THEN <<>>
    ELSE <<"ERROR: " \o path, "EXCEPTION " \o r.exc>>

\* line 525: the operand of "in" is evaluated outside any try block; the
\* membership test itself, of a one-element list, is False for every dataset
PatLocationError(d) ==
    IF Item0LeafError(d, T_OriginalAttributes, T_ModifiedAttributes) # NoException
    THEN Item0LeafError(d, T_OriginalAttributes, T_ModifiedAttributes)
    ELSE IF Len(Get(Get(d, T_OriginalAttributes).items[1],
                    T_ModifiedAttributes).items) = 0
    THEN "IndexError"
    ELSE NoException

SummaryRowSwapped(inst, path, patlocation, accession_num, physician, patient, patid, source_of_previous_vals, manufacturer, institute) ==
    << <<path>>, inst._study_description, inst._series_description,
       inst._institutename, inst._instituteaddress, inst._physicianname,
       inst._performing_physician, inst._stationname, inst._operatorsname,
       inst._patientname, inst._patientbirth, inst._patientsex,
       inst._patientsize, inst._patientweight, inst._patient_address,
       patlocation, accession_num, patient, physician, patid,
       source_of_previous_vals, manufacturer, institute,
       inst._study_reason, inst._study_comments, inst._cur_patient_location,
       inst._patient_history >>

\* the list of lines 547-574 and of lines 576-603
SummaryRow(inst, path, patlocation, accession_num, physician, patient, patid, source_of_previous_vals, manufacturer, institute) ==
    << <<path>>, inst._study_description, inst._series_description,
       inst._institutename, inst._instituteaddress, inst._physicianname,
       inst._performing_physician, inst._stationname, inst._operatorsname,
       inst._patientname, inst._patientbirth, inst._patientsex,
       inst._patientsize, inst._patientweight, inst._patient_address,
       patlocation, accession_num, physician, patient, patid,
       source_of_previous_vals, manufacturer, institute,
       inst._study_reason, inst._study_comments, inst._cur_patient_location,
       inst._patient_history >>

\* The result: exc, the exception that leaves the method; row; self with the
\* tree as the method leaves it; log.
get_patient_and_physician(inst, path, log) ==
    LET x == ReadExposure(inst.data)
        d == x.data
        after == [inst EXCEPT !.data = d]
        acc == ReadPrev(d, TRUE, T_AccessionNumber, <<"default">>)
        phy == ReadPrev(d, TRUE, T_ReferringPhysicianName, NotDetermined)
        pat == ReadPrev(d, TRUE, T_PatientName, NotDetermined)
        pid == ReadPrev(d, TRUE, T_PatientID, NotDetermined)
        src == ReadPrev(d, FALSE, T_SourceOfPreviousValues, NotDetermined)
        log4 == log \o RowLogLines(acc, path) \o RowLogLines(phy, path)
                    \o RowLogLines(pat, path) \o RowLogLines(pid, path)
    IN  IF x.exc # NoException
        THEN [exc |-> x.exc, row |-> <<>>, self |-> after, log |-> log]
        ELSE IF ~Has(d, T_OriginalAttributes)
        THEN [exc |-> NoException,
              row |-> SummaryRow(inst, path, NotDetermined, NotDetermined,
                                 NotDetermined, NotDetermined, NotDetermined,
                                 NotDetermined, x.manufacturer, x.institute),
              self |-> after, log |-> log]
        ELSE IF PatLocationError(d) # NoException
        THEN [exc |-> PatLocationError(d), row |-> <<>>, self |-> after,
              log |-> log4]
        ELSE [exc |-> NoException,
              row |-> SummaryRow(inst, path, NotDetermined, acc.value, phy.value,
                                 pat.value, pid.value, src.value,
                                 x.manufacturer, x.institute),
              self |-> after,
              log |-> log4 \o RowLogLines(src, path)]

\* parse_study_dirs is not running
PipelineIdle ==
    /\ root_dir_exists = FALSE /\ ananomize_dcm = FALSE /\ files = <<>>
    /\ fidx = 0 /\ dicom_file_count = 0 /\ orgDCM = None /\ anoDCM = None
    /\ _original_list = <<>> /\ _ananomized_list = <<>> /\ series_dict = <<>>
    /\ folders = {} /\ json_files = <<>> /\ log_open = FALSE /\ tables = <<>>
    /\ ret = None /\ ppc = "idle"

(***************************************************************************)
(* Trees handed to the flattener.                                          *)
(***************************************************************************)
LeafManufacturer ==
    Elem(\h0008, \h0070, "LO", "Manufacturer", "Manufacturer", <<"ACME">>)

LeafImageType ==
    Elem(\h0008, \h0008, "CS", "ImageType", "Image Type",
         <<"ORIGINAL", "PRIMARY", "AXIAL">>)

\* a public tag the dictionary does not know: no keyword, no name
LeafUnknown == Elem(\h0008, \h9999, "UN", "", "", <<"raw">>)

\* a private element: no keyword, the name the decoder gives private data
LeafPrivate == Elem(\h0009, \h1001, "LO", "", "Private tag data", <<"secret">>)

LeafPatientName ==
    Elem(\h0010, \h0010, "PN", "PatientName", "Patient's Name", <<"Doe^John">>)

LeafSource ==
    Elem(\h0400, \h0564, "LO", "SourceOfPreviousValues",
         "Source of Previous Values", <<"PACS">>)

LeafPixelData ==
    Elem(\h7FE0, \h0010, "OW", "PixelData", "Pixel Data", <<"0011">>)

\* a person name whose str() raises
LeafBadName ==
    UnprintableElem(\h0010, \h1001, "PN", "OtherPatientNames",
                    "Other Patient Names", <<"x">>)

DeepItems == <<SortByTag({LeafManufacturer}), SortByTag({LeafManufacturer, LeafPrivate})>>

InnerSeq(its, fl) ==
    SeqElem(\h0400, \h0550, "ModifiedAttributesSequence",
            "Modified Attributes Sequence", its, fl)

InnerSeqs ==
    { InnerSeq(<<>>, NoRaise), InnerSeq(DeepItems, NoRaise),
      InnerSeq(DeepItems, RaiseAt(1)), InnerSeq(<<DeepItems[1]>>, RaiseAt(0)) }

PrivateSeq(its, fl) == SeqElem(\h0029, \h1010, "", "Private tag data", its, fl)

MidItems ==
    { SortByTag({LeafManufacturer}),
      SortByTag({LeafManufacturer, PrivateSeq(<<DeepItems[1]>>, NoRaise)}),
      SortByTag({LeafBadName, LeafSource}) }
        \cup { SortByTag({s, LeafSource}) : s \in InnerSeqs }

ItemLists(pool) == UNION { [1..n -> pool] : n \in 0..MaxItems }

\* the outer sequence, once under a public and once under a private tag
OuterSeqs ==
    UNION { { SeqElem(\h0018, \hA001, "ContributingEquipmentSequence",
                      "Contributing Equipment Sequence", its, fl),
              PrivateSeq(its, fl) }
            : its \in ItemLists(MidItems), fl \in { NoRaise, RaiseAt(0), RaiseAt(1) } }

TopExtras ==
    { {}, {LeafPatientName, LeafBadName, LeafPixelData},
      {LeafImageType, LeafUnknown, LeafPrivate, LeafSource} }

FlattenTrees == { SortByTag({s} \cup x) : s \in OuterSeqs, x \in TopExtras }

DefaultMaxValueLength == 200

ShortValueLength == 4

ZeroValueLength == 0

(***************************************************************************)
(* The flattener on its own: a call of extract_dicom_metadata.             *)
(***************************************************************************)
InitFlatten ==
    /\ dset \in FlattenTrees
    /\ include_private \in BOOLEAN
    /\ include_pixel_data \in BOOLEAN
    /\ max_value_length \in {DefaultMaxValueLength, ShortValueLength, ZeroValueLength}
    /\ results = <<>>
    /\ fpc = "call"
    /\ disk = <<>> /\ logfile = <<>> /\ out_files = <<>>
    /\ ananomize_file = FALSE /\ img = None /\ raised = NoException
    /\ cpc = "idle" /\ row = <<>>
    /\ PipelineIdle

Extract ==
    /\ fpc = "call"
    /\ results' = extract_dicom_metadata(dset, include_private, include_pixel_data,
                                          max_value_length)
    /\ fpc' = "returned"
    /\ UNCHANGED <<dset, include_private, include_pixel_data, max_value_length>>
    /\ UNCHANGED <<cvars, pvars>>

NextFlatten == Extract

SpecFlatten == InitFlatten /\ [][NextFlatten]_vars

(***************************************************************************)
(* Trees handed to the constructor.                                        *)
(***************************************************************************)
ImageTypeElem(v) == Elem(\h0008, \h0008, "CS", "ImageType", "Image Type", v)

ModalityElem(m) == Elem(\h0008, \h0060, "CS", "Modality", "Modality", <<m>>)

RequiredElems ==
    { Elem(\h0010, \h0010, "PN", "PatientName", "Patient's Name", <<"Doe^John">>),
      Elem(\h0010, \h0020, "LO", "PatientID", "Patient ID", <<"PID-1">>),
      Elem(\h0008, \h0020, "DA", "StudyDate", "Study Date", <<"20240101">>),
      Elem(\h0028, \h0010, "US", "Rows", "Rows", <<"512">>),
      Elem(\h0028, \h0011, "US", "Columns", "Columns", <<"256">>),
      Elem(\h0028, \h0100, "US", "BitsAllocated", "Bits Allocated", <<"16">>) }

GeometryElems(g) ==
    (IF g = "short_ipp"
     THEN { Elem(\h0020, \h0032, "DS", "ImagePositionPatient",
                 "Image Position (Patient)", <<"0.0", "0.0">>) }
     ELSE IF g = "none" THEN {}
     ELSE { Elem(\h0020, \h0032, "DS", "ImagePositionPatient",
                 "Image Position (Patient)", <<"0.0", "0.0", "12.5">>) })
    \cup (IF g \in {"none", "no_spacing"} THEN {}
          ELSE { Elem(\h0028, \h0030, "DS", "PixelSpacing", "Pixel Spacing",
                      <<"0.5", "0.7">>) })
    \cup (IF g = "none" THEN {}
          ELSE { Elem(\h0028, \h1053, "DS", "RescaleSlope", "Rescale Slope", <<"1">>) })
    \cup (IF g \in {"none", "no_intercept"} THEN {}
          ELSE { Elem(\h0028, \h1052, "DS", "RescaleIntercept", "Rescale Intercept",
                      <<"-1024">>) })

\* the optional top-level fields the constructor reads or rewrites
OptionalElems ==
    << Elem(\h0008, \h0070, "LO", "Manufacturer", "Manufacturer", <<"ACME">>),
       Elem(\h0008, \h0080, "LO", "InstitutionName", "Institution Name",
            <<"St. Mary">>),
       Elem(\h0008, \h0081, "ST", "InstitutionAddress", "Institution Address",
            <<"1 Main St">>),
       Elem(\h0008, \h0090, "PN", "ReferringPhysicianName",
            "Referring Physician's Name", <<"Dr. Ref">>),
       Elem(\h0008, \h1010, "SH", "StationName", "Station Name", <<"CT01">>),
       Elem(\h0008, \h1030, "LO", "StudyDescription", "Study Description",
            <<"Spine">>),
       Elem(\h0008, \h103E, "LO", "SeriesDescription", "Series Description",
            <<"Axial">>),
       Elem(\h0008, \h1050, "PN", "PerformingPhysicianName",
            "Performing Physician's Name", <<"Dr. Perf">>),
       Elem(\h0008, \h1070, "PN", "OperatorsName", "Operators' Name", <<"Op. Smith">>),
       Elem(\h0010, \h0030, "DA", "PatientBirthDate", "Patient's Birth Date",
            <<"19700101">>),
       Elem(\h0010, \h0040, "CS", "PatientSex", "Patient's Sex", <<"F">>),
       Elem(\h0010, \h1020, "DS", "PatientSize", "Patient's Size", <<"1.65">>),
       Elem(\h0010, \h1030, "DS", "PatientWeight", "Patient's Weight", <<"61">>),
       Elem(\h0010, \h1040, "LO", "PatientAddress", "Patient's Address",
            <<"2 Side St">>),
       Elem(\h0010, \h21B0, "LT", "AdditionalPatientHistory",
            "Additional Patient History", <<"history">>),
       Elem(\h0020, \h000E, "UI", "SeriesInstanceUID", "Series Instance UID",
            <<"1.2.3">>),
       Elem(\h0032, \h1030, "LO", "ReasonForStudy", "Reason for Study", <<"pain">>),
       Elem(\h0032, \h4000, "LT", "StudyComments", "Study Comments", <<"comment">>),
       Elem(\h0038, \h0300, "LO", "CurrentPatientLocation",
            "Current Patient Location", <<"Ward 3">>) >>

OptionalChoice(f) ==
    { OptionalElems[k] :
        k \in { j \in 1..Len(OptionalElems) :
                  \/ f = "all"
                  \/ f = "odd" /\ j % 2 = 1
                  \/ f = "even" /\ j % 2 = 0 } }

\* the exposure container (0018,A001) in its shapes
ExposureElems(x) ==
    LET sq(its) == SeqElem(\h0018, \hA001, "ContributingEquipmentSequence",
                           "Contributing Equipment Sequence", its, NoRaise)
        man == Elem(\h0008, \h0070, "LO", "Manufacturer", "Manufacturer",
                    <<"Inner ACME">>)
        ins == Elem(\h0008, \h0080, "LO", "InstitutionName", "Institution Name",
                    <<"Inner Clinic">>)
    IN  IF x = "absent" THEN {}
        ELSE IF x = "empty" THEN { sq(<<>>) }
        ELSE IF x = "no_manufacturer" THEN { sq(<<SortByTag({ins})>>) }
        ELSE IF x = "no_institution" THEN { sq(<<SortByTag({man})>>) }
        ELSE { sq(<<SortByTag({man, ins, LeafPrivate})>>) }

\* the previous-values container (0400,0561) in its shapes
PreviousElems(x) ==
    LET sq(its) == SeqElem(\h0400, \h0561, "OriginalAttributesSequence",
                           "Original Attributes Sequence", its, NoRaise)
        acc == Elem(\h0008, \h0050, "SH", "AccessionNumber", "Accession Number",
                    <<"ACC-7">>)
        phy == Elem(\h0008, \h0090, "PN", "ReferringPhysicianName",
                    "Referring Physician's Name", <<"Dr. Old">>)
        nam == Elem(\h0010, \h0010, "PN", "PatientName", "Patient's Name",
                    <<"Doe^Jane">>)
        pid == Elem(\h0010, \h0020, "LO", "PatientID", "Patient ID", <<"PID-0">>)
        loc == Elem(\h0038, \h0300, "LO", "CurrentPatientLocation",
                    "Current Patient Location", <<"Ward 1">>)
    IN  IF x = "absent" THEN {}
        ELSE IF x = "empty" THEN { sq(<<>>) }
        ELSE IF x = "no_inner" THEN { sq(<<SortByTag({LeafSource})>>) }
        ELSE IF x = "inner_empty"
        THEN { sq(<<SortByTag({InnerSeq(<<>>, NoRaise), LeafSource})>>) }
        ELSE IF x = "partial"
        THEN { sq(<<SortByTag({InnerSeq(<<SortByTag({acc, nam})>>, NoRaise)})>>) }
        ELSE { sq(<<SortByTag({InnerSeq(<<SortByTag({acc, phy, nam, pid, loc,
                                                      LeafPrivate})>>, NoRaise),
                               LeafSource})>>) }

\* private elements at the top level, inside a private sequence, and two
\* sequence levels down
PrivateElems(p) ==
    IF ~p THEN {}
    ELSE { LeafPrivate,
           PrivateSeq(<<SortByTag({LeafManufacturer})>>, NoRaise),
           SeqElem(\h0008, \h1115, "ReferencedSeriesSequence",
                   "Referenced Series Sequence",
                   <<SortByTag({ SeqElem(\h0008, \h114A, "ReferencedInstanceSequence",
                                         "Referenced Instance Sequence",
                                         <<SortByTag({LeafUnknown, LeafPrivate})>>,
                                         NoRaise),
                                 LeafPrivate })>>,
                   NoRaise) }

NormalImageType == <<"ORIGINAL", "PRIMARY", "AXIAL">>

ExcludedImageType == <<"DERIVED", "SECONDARY", "DOSE_INFO">>

\* the tree of a choice c
BuildTree(c) ==
    SortByTag(
        (IF c.imgtype = "absent" THEN {}
         ELSE { ImageTypeElem(IF c.imgtype = "excluded" THEN ExcludedImageType
                              ELSE NormalImageType) })
        \cup (IF c.modality = "absent" THEN {} ELSE { ModalityElem(c.modality) })
        \cup { e \in RequiredElems : TagOf(e) \notin c.missing }
        \cup GeometryElems(c.geom)
        \cup OptionalChoice(c.fields)
        \cup ExposureElems(c.exposure)
        \cup PreviousElems(c.prev)
        \cup PrivateElems(c.private))

ExposureShapes == {"absent", "empty", "no_manufacturer", "no_institution", "complete"}

PreviousShapes == {"absent", "empty", "no_inner", "inner_empty", "partial", "complete"}

\* trees that differ in what the anonymizer meets
AnonChoices ==
    [imgtype : {"normal"}, modality : {"CT", "SEG", "US"}, geom : {"all"},
     missing : {{}}, fields : {"all", "none", "odd", "even"},
     exposure : ExposureShapes, prev : PreviousShapes, private : BOOLEAN]

\* trees that differ in what the classifier meets
ClassifyChoices ==
    [imgtype : {"absent", "excluded", "normal"},
     modality : {"absent", "CT", "MR", "MRT", "SEG", "US"},
     geom : {"all", "none", "no_intercept", "short_ipp", "no_spacing"},
     missing : {{}} \cup { {RequiredFields[k]} : k \in 1..Len(RequiredFields) },
     fields : {"all"}, exposure : {"complete"}, prev : {"complete"},
     private : {TRUE}]

CImageTrees == { BuildTree(c) : c \in AnonChoices \cup ClassifyChoices }

SourcePath == "in/a.dcm"

TargetPath == "out/a.dcm"

(***************************************************************************)
(* The constructor on its own: CImage(path, res, logfile, ananomize_file)  *)
(* on a decoded tree, then get_patient_and_physician on the instance.      *)
(***************************************************************************)
InitCImage ==
    /\ disk \in CImageTrees
    /\ ananomize_file \in BOOLEAN
    /\ logfile = <<>> /\ out_files = <<>>
    /\ img = None /\ raised = NoException /\ cpc = "new" /\ row = <<>>
    /\ dset = <<>> /\ include_private = TRUE /\ include_pixel_data = FALSE
    /\ max_value_length = DefaultMaxValueLength /\ results = <<>> /\ fpc = "idle"
    /\ PipelineIdle

Construct ==
    /\ cpc = "new"
    /\ \E writable \in BOOLEAN :
          \E r \in { CImage__init__(disk, SourcePath, TargetPath, logfile,
                                    ananomize_file, writable) } :
              /\ raised' = r.exc
              /\ img' = IF r.exc = NoException THEN r.self ELSE None
              /\ logfile' = r.log
              /\ out_files' = IF r.saved
                               THEN Append(out_files,
                                           [path |-> TargetPath, data |-> r.self.data])
                               ELSE out_files
              /\ cpc' = IF r.exc = NoException THEN "constructed" ELSE "raised"
    /\ UNCHANGED <<disk, ananomize_file, row>>
    /\ UNCHANGED <<fvars, pvars>>

GetRow ==
    /\ cpc = "constructed"
    /\ \E r \in { get_patient_and_physician(
                      img, IF ananomize_file THEN TargetPath ELSE SourcePath,
                      logfile) } :
           /\ raised' = r.exc
           /\ img' = r.self
           /\ logfile' = r.log
           /\ row' = r.row
           /\ cpc' = IF r.exc = NoException THEN "row" ELSE "row_raised"
    /\ UNCHANGED <<disk, ananomize_file, out_files>>
    /\ UNCHANGED <<fvars, pvars>>

NextCImage == Construct \/ GetRow

SpecCImage == InitCImage /\ [][NextCImage]_vars

(***************************************************************************)
(* parse_study_dirs(root_dir, out_dir, ananomize_dcm)                      *)
(*                                                                         *)
(* A file of the source directory is a record: rel_dir, the components of  *)
(* its directory relative to root_dir; stem and ext, its name; decodable,  *)
(* whether dcmread accepts it; tree, what dcmread gives.                   *)
(***************************************************************************)
RootDir == "in"

OutDir == "out"

DummyPath == "dummypath"

\* os.path.join
PathJoin(a, b) == a \o "/" \o b

RECURSIVE JoinParts(_)
\* os.path.relpath(dirpath, root_dir) as a string
JoinParts(parts) ==
    IF Len(parts) = 1 THEN parts[1] ELSE PathJoin(parts[1], JoinParts(Tail(parts)))

filename(f) == f.stem \o f.ext

source_file(f) == PathJoin(PathJoin(RootDir, JoinParts(f.rel_dir)), filename(f))

target_dir(f) == PathJoin(OutDir, JoinParts(f.rel_dir))

target_file(f) == PathJoin(target_dir(f), filename(f))

\* source_file.replace(".dcm", ".json")
json_path(f) ==
    PathJoin(PathJoin(RootDir, JoinParts(f.rel_dir)),
             f.stem \o (IF f.ext = ".dcm" THEN ".json" ELSE f.ext))

\* CImage(path, _res_file_path, _logfile, ananomize_file): dcmread, then the
\* constructor body
CImage(f, path, res_path, log, anonymize, writable) ==
    IF ~f.decodable
    THEN [exc |-> "InvalidDicomError", self |-> None, log |-> log, saved |-> FALSE]
    ELSE CImage__init__(f.tree, path, res_path, log, anonymize, writable)

\* the document json.dumps writes: per record its keys and values
meta_data_to_json(meta) ==
    [k \in 1..Len(meta) |->
        [path |-> meta[k].path, tag |-> meta[k].tag, group |-> meta[k].group,
         element |-> meta[k].element, vr |-> meta[k].vr, name |-> meta[k].name,
         keyword |-> meta[k].keyword, value |-> meta[k].value, vm |-> meta[k].vm,
         private |-> meta[k].private]]

\* the two lines the except branch of the loop body writes
AfterExceptAborts == "raised"

\* where the loop stands after the except branch of lines 175-179: the
\* exception is swallowed and the walk takes the next file
AfterExcept == "walk"

ExceptLines(f, e) == <<"ERROR: " \o source_file(f), "EXCEPTION: " \o e>>

\* str.encode('utf-8')
Utf8(str) == [bytes |-> str]

UnknownPatient == <<"UNKNOWN_PATIENT">>

\* the key of an instance: (patient_id, series_uid)
SeriesKey(inst, f) ==
    << IF inst._patientID \in {<<>>, <<"">>} THEN UnknownPatient ELSE inst._patientID,
       IF Has(inst.data, T_SeriesInstanceUID)
       THEN StrOfValue(Get(inst.data, T_SeriesInstanceUID).value)
       ELSE JoinParts(f.rel_dir) >>

KeyIndex(sd, key) == { k \in 1..Len(sd) : sd[k].key = key }

GroupFileLastWins(sd, inst, f) ==
    LET key == SeriesKey(inst, f)
    IN  IF KeyIndex(sd, key) = {}
        THEN Append(sd, [key |-> key, files |-> <<source_file(f)>>,
                         orgDCM |-> inst, relative_path |-> f.rel_dir])
        ELSE [k \in 1..Len(sd) |->
                 IF sd[k].key = key
                 THEN [sd[k] EXCEPT !.files = Append(@, source_file(f)),
                                    !.orgDCM = inst]
                 ELSE sd[k]]

\* the grouping block of the loop body applied to series_dict
GroupFile(sd, inst, f) ==
    LET key == SeriesKey(inst, f)
    IN  IF KeyIndex(sd, key) = {}
        THEN Append(sd, [key |-> key, files |-> <<source_file(f)>>,
                         orgDCM |-> inst, relative_path |-> f.rel_dir])
        ELSE [k \in 1..Len(sd) |->
                 IF sd[k].key = key
                 THEN [sd[k] EXCEPT !.files = Append(@, source_file(f))]
                 ELSE sd[k]]

\* the list "data": one row per group, in the order of the dictionary
SeriesData(sd) ==
    [k \in 1..Len(sd) |->
        [id |-> Utf8(StrOfValue(sd[k].key[1]) \o sd[k].key[2]),
         patid |-> Utf8(StrOfValue(sd[k].key[1])),
         modality |-> sd[k].orgDCM._modality,
         manufacturer |-> sd[k].orgDCM._manufacturer,
         device |-> sd[k].orgDCM._man_modelname,
         seriesdescription |-> sd[k].orgDCM._series_description,
         patient |-> sd[k].relative_path[1],
         series |-> IF Len(sd[k].relative_path) > 1 THEN sd[k].relative_path[2]
                    ELSE "unknown",
         numimages |-> Len(sd[k].files),
         seriespath |-> sd[k].files[1]]]

\* pd.DataFrame(data, ...) followed by df["id"] = df.index
DataFrame(data) == [k \in 1..Len(data) |-> [data[k] EXCEPT !.id = k - 1]]

\* the header of the two summary tables
_val_columns ==
    << "file", "Study Description", "Series Description", "Institute",
       "Inst Address", "Physicianname", "Performing Physician", "Stationname",
       "Opetratorsname", "Patientname", "Patientbirth", "Patientsex",
       "Patientsize", "Patientweight", "Patientaddress", "PatLocation",
       "AccessionNum", "Physician", "Patientname", "patID",
       "source_of_previous_vals", "manufacturer", "institute", "study_reason",
       "study_comments", "patient_location", "patient_history" >>

NoFilesError ==
    [kind |-> "raise", error |-> "ValueError",
     msg |-> "Es wurden keine DICOM-Dateien gefunden."]

NoFoldersError ==
    [kind |-> "raise", error |-> "ValueError",
     msg |-> "Es wurden keine Patientenordner gefunden."]

(***************************************************************************)
(* Source directories.                                                     *)
(***************************************************************************)
TreeValidFull ==
    BuildTree([imgtype |-> "normal", modality |-> "CT", geom |-> "all",
               missing |-> {}, fields |-> "all", exposure |-> "complete",
               prev |-> "complete", private |-> TRUE])

TreeValidPlain ==
    BuildTree([imgtype |-> "normal", modality |-> "US", geom |-> "all",
               missing |-> {}, fields |-> "none", exposure |-> "absent",
               prev |-> "absent", private |-> FALSE])

TreeExcluded ==
    BuildTree([imgtype |-> "excluded", modality |-> "CT", geom |-> "all",
               missing |-> {}, fields |-> "all", exposure |-> "absent",
               prev |-> "absent", private |-> TRUE])

TreeEmptyExposure ==
    BuildTree([imgtype |-> "normal", modality |-> "CT", geom |-> "all",
               missing |-> {}, fields |-> "all", exposure |-> "empty",
               prev |-> "complete", private |-> FALSE])

\* a second tree of the series of TreeValidFull, of another modality
TreeValidMR ==
    BuildTree([imgtype |-> "normal", modality |-> "MR", geom |-> "all",
               missing |-> {}, fields |-> "all", exposure |-> "complete",
               prev |-> "complete", private |-> FALSE])

TreeNoModality ==
    BuildTree([imgtype |-> "normal", modality |-> "absent", geom |-> "all",
               missing |-> {}, fields |-> "all", exposure |-> "absent",
               prev |-> "absent", private |-> FALSE])

\* what a file can be: DICOM files of the trees above, a file named .dcm that
\* the decoder rejects, and a file of another kind
FileContents ==
    { [ext |-> ".dcm", decodable |-> TRUE, tree |-> t] :
        t \in {TreeValidFull, TreeValidPlain, TreeValidMR, TreeExcluded,
               TreeEmptyExposure, TreeNoModality} }
    \cup { [ext |-> ".dcm", decodable |-> FALSE, tree |-> <<>>],
           [ext |-> ".txt", decodable |-> FALSE, tree |-> <<>>] }

\* the directories below root_dir, in the order os.walk visits them
Dirs == << <<"p1", "s1">>, <<"p2">> >>

MkFile(i, d, c) ==
    [rel_dir |-> Dirs[d], stem |-> "f" \o ToString(i), ext |-> c.ext,
     decodable |-> c.decodable, tree |-> c.tree]

\* the file lists os.walk can yield: directory by directory
WalkOrders ==
    UNION { { [i \in 1..n |-> MkFile(i, pick[i][1], pick[i][2])] :
                pick \in { q \in [1..n -> (1..Len(Dirs)) \X FileContents] :
                             \A i \in 1..n : \A j \in 1..n :
                                 (i < j) => q[i][1] <= q[j][1] } }
            : n \in 0..MaxFiles }

InitPipeline ==
    /\ root_dir_exists \in BOOLEAN
    /\ ananomize_dcm \in BOOLEAN
    /\ files \in (IF root_dir_exists THEN WalkOrders ELSE { <<>> })
    /\ fidx = 0 /\ dicom_file_count = 0 /\ orgDCM = None /\ anoDCM = None
    /\ _original_list = <<>> /\ _ananomized_list = <<>> /\ series_dict = <<>>
    /\ folders = {} /\ json_files = <<>> /\ log_open = FALSE /\ tables = <<>>
    /\ ret = None /\ ppc = "call"
    /\ logfile = <<>> /\ out_files = <<>>
    /\ disk = <<>> /\ ananomize_file = FALSE /\ img = None
    /\ raised = NoException /\ cpc = "idle" /\ row = <<>>
    /\ dset = <<>> /\ include_private = TRUE /\ include_pixel_data = FALSE
    /\ max_value_length = DefaultMaxValueLength /\ results = <<>> /\ fpc = "idle"

\* left alone by every step of parse_study_dirs
Inputs == <<root_dir_exists, ananomize_dcm, files>>

Standalone == <<fvars, disk, ananomize_file, img, raised, cpc, row>>

\* lines 62-65: the root exists, the log sink is opened
OpenLog ==
    /\ ppc = "call" /\ root_dir_exists
    /\ log_open' = TRUE
    /\ logfile' = <<>>
    /\ ppc' = "walk"
    /\ UNCHANGED <<Inputs, Standalone, fidx, dicom_file_count, orgDCM, anoDCM,
                   _original_list, _ananomized_list, series_dict, folders,
                   json_files, tables, ret, out_files>>

\* lines 263-264: the root does not exist; the function prints and falls off
\* its end
RootMissing ==
    /\ ppc = "call" /\ ~root_dir_exists
    /\ ret' = [kind |-> "return", value |-> None]
    /\ ppc' = "returned"
    /\ UNCHANGED <<Inputs, Standalone, fidx, dicom_file_count, orgDCM, anoDCM,
                   _original_list, _ananomized_list, series_dict, folders,
                   json_files, tables, log_open, logfile, out_files>>

Cur == files[fidx]

\* lines 110-123: the next file of the walk; a .dcm file is counted and its
\* target directory made
TakeFile ==
    /\ ppc = "walk" /\ fidx < Len(files)
    /\ fidx' = fidx + 1
    /\ IF files[fidx + 1].ext = ".dcm"
       THEN /\ dicom_file_count' = dicom_file_count + 1
            /\ folders' = IF ananomize_dcm
                          THEN folders \cup { target_dir(files[fidx + 1]) }
                          ELSE folders
            /\ ppc' = "org"
       ELSE /\ UNCHANGED <<dicom_file_count, folders>>
            /\ ppc' = "walk"
    /\ UNCHANGED <<Inputs, Standalone, orgDCM, anoDCM, _original_list,
                   _ananomized_list, series_dict, json_files, tables, ret,
                   log_open, logfile, out_files>>

\* line 129, and lines 175-179 when it raises
ConstructOriginal ==
    /\ ppc = "org"
    /\ \E r \in { CImage(Cur, source_file(Cur), DummyPath, logfile, FALSE, TRUE) } :
          IF r.exc = NoException
          THEN /\ orgDCM' = r.self
               /\ logfile' = r.log
               /\ ppc' = "meta"
          ELSE /\ orgDCM' = orgDCM
               /\ logfile' = r.log \o ExceptLines(Cur, r.exc)
               /\ ppc' = AfterExcept
    /\ UNCHANGED <<Inputs, Standalone, fidx, dicom_file_count, anoDCM,
                   _original_list, _ananomized_list, series_dict, folders,
                   json_files, tables, ret, log_open, out_files>>

\* lines 130-136: the flat metadata of the instance, written next to the file
ExportMeta ==
    /\ ppc = "meta"
    /\ json_files' = Append(json_files,
                            [path |-> json_path(Cur),
                             meta |-> meta_data_to_json(
                                          extract_dicom_metadata(
                                              orgDCM.data, TRUE, FALSE,
                                              DefaultMaxValueLength))])
    /\ ppc' = "row"
    /\ UNCHANGED <<Inputs, Standalone, fidx, dicom_file_count, orgDCM, anoDCM,
                   _original_list, _ananomized_list, series_dict, folders,
                   tables, ret, log_open, logfile, out_files>>

\* lines 139-140, and lines 175-179 when the method raises
OriginalRow ==
    /\ ppc = "row"
    /\ \E r \in { get_patient_and_physician(orgDCM, source_file(Cur), logfile) } :
          /\ orgDCM' = r.self
          /\ IF r.exc = NoException
             THEN /\ _original_list' = Append(_original_list, r.row)
                  /\ logfile' = r.log
                  /\ ppc' = IF ananomize_dcm THEN "ano" ELSE "group"
             ELSE /\ _original_list' = _original_list
                  /\ logfile' = r.log \o ExceptLines(Cur, r.exc)
                  /\ ppc' = AfterExcept
    /\ UNCHANGED <<Inputs, Standalone, fidx, dicom_file_count, anoDCM,
                   _ananomized_list, series_dict, folders, json_files, tables,
                   ret, log_open, out_files>>

\* line 145, and lines 175-179 when the constructor raises
ConstructAnonymized ==
    /\ ppc = "ano"
    /\ \E writable \in BOOLEAN :
          \E r \in { CImage(Cur, source_file(Cur), target_file(Cur), logfile,
                            TRUE, writable) } :
              /\ out_files' = IF r.saved
                               THEN Append(out_files, [path |-> target_file(Cur),
                                                       data |-> r.self.data])
                               ELSE out_files
              /\ IF r.exc = NoException
                 THEN /\ anoDCM' = r.self
                      /\ logfile' = r.log
                      /\ ppc' = "anorow"
                 ELSE /\ anoDCM' = anoDCM
                      /\ logfile' = r.log \o ExceptLines(Cur, r.exc)
                      /\ ppc' = AfterExcept
    /\ UNCHANGED <<Inputs, Standalone, fidx, dicom_file_count, orgDCM,
                   _original_list, _ananomized_list, series_dict, folders,
                   json_files, tables, ret, log_open>>

\* lines 146-149, and lines 175-179 when the method raises
AnonymizedRow ==
    /\ ppc = "anorow"
    /\ \E r \in { get_patient_and_physician(anoDCM, target_file(Cur), logfile) } :
          IF r.exc = NoException
          THEN /\ _ananomized_list' = Append(_ananomized_list, r.row)
               /\ anoDCM' = None
               /\ logfile' = r.log
               /\ ppc' = "group"
          ELSE /\ _ananomized_list' = _ananomized_list
               /\ anoDCM' = r.self
               /\ logfile' = r.log \o ExceptLines(Cur, r.exc)
               /\ ppc' = AfterExcept
    /\ UNCHANGED <<Inputs, Standalone, fidx, dicom_file_count, orgDCM,
                   _original_list, series_dict, folders, json_files, tables,
                   ret, log_open, out_files>>

\* lines 152-173: a Valid instance joins the group of its key; the name
\* orgDCM is deleted unless the instance became a group's representative
Group ==
    /\ ppc = "group"
    /\ IF orgDCM.valid
       THEN /\ series_dict' = GroupFile(series_dict, orgDCM, Cur)
            /\ orgDCM' = IF KeyIndex(series_dict, SeriesKey(orgDCM, Cur)) = {}
                         THEN orgDCM ELSE None
       ELSE /\ series_dict' = series_dict
            /\ orgDCM' = None
    /\ ppc' = "walk"
    /\ UNCHANGED <<Inputs, Standalone, fidx, dicom_file_count, anoDCM,
                   _original_list, _ananomized_list, folders, json_files,
                   tables, ret, log_open, logfile, out_files>>

WalkDone == ppc = "walk" /\ fidx = Len(files)

\* lines 181-183
RaiseNoFiles ==
    /\ WalkDone /\ dicom_file_count = 0
    /\ log_open' = FALSE
    /\ ret' = NoFilesError
    /\ ppc' = "raised"
    /\ UNCHANGED <<Inputs, Standalone, fidx, dicom_file_count, orgDCM, anoDCM,
                   _original_list, _ananomized_list, series_dict, folders,
                   json_files, tables, logfile, out_files>>

\* lines 185-238
RaiseNoFolders ==
    /\ WalkDone /\ dicom_file_count > 0
    /\ Len(SeriesData(series_dict)) = 0
    /\ log_open' = FALSE
    /\ ret' = NoFoldersError
    /\ ppc' = "raised"
    /\ UNCHANGED <<Inputs, Standalone, fidx, dicom_file_count, orgDCM, anoDCM,
                   _original_list, _ananomized_list, series_dict, folders,
                   json_files, tables, logfile, out_files>>

\* lines 185-262: the three tables are written and the result returned
WriteTables ==
    /\ WalkDone /\ dicom_file_count > 0
    /\ Len(SeriesData(series_dict)) > 0
    /\ log_open' = FALSE
    /\ \E df \in { DataFrame(SeriesData(series_dict)) } :
          /\ tables' =
               << [path |-> PathJoin(OutDir, "parsed_series.xlsx"), rows |-> df],
                  [path |-> PathJoin(OutDir, "original_patient_info.xlsx"),
                   rows |-> _original_list] >>
               \o (IF Len(_ananomized_list) > 0
                   THEN << [path |-> PathJoin(OutDir, "ananomized_patient_info.xlsx"),
                            rows |-> _ananomized_list] >>
                   ELSE <<>>)
          /\ ret' = [kind |-> "return",
                     value |-> <<PathJoin(OutDir, "parsed_series.xlsx"), df>>]
    /\ ppc' = "returned"
    /\ UNCHANGED <<Inputs, Standalone, fidx, dicom_file_count, orgDCM, anoDCM,
                   _original_list, _ananomized_list, series_dict, folders,
                   json_files, logfile, out_files>>

Next ==
    \/ OpenLog \/ RootMissing \/ TakeFile \/ ConstructOriginal \/ ExportMeta
    \/ OriginalRow \/ ConstructAnonymized \/ AnonymizedRow \/ Group
    \/ RaiseNoFiles \/ RaiseNoFolders \/ WriteTables

Spec == InitPipeline /\ [][Next]_vars

(***************************************************************************)
(* Reading the tree by position, for the statements about the flattener.   *)
(***************************************************************************)
RECURSIVE ElemAt(_, _)
ElemAt(ds, pos) ==
    IF Len(pos) = 1 THEN ds[pos[1]]
    ELSE ElemAt(ds[pos[1]].items[pos[2] + 1], SubSeq(pos, 3, Len(pos)))

RECURSIVE PosIn(_, _)
PosIn(ds, prefix) ==
    UNION { { Append(prefix, k) }
            \cup UNION { PosIn(ds[k].items[i + 1], prefix \o <<k, i>>)
                         : i \in 0..(Len(ds[k].items) - 1) }
            : k \in 1..Len(ds) }

\* the lengths of the prefixes of pos that name an element (pos itself included)
ElemPrefixLens(pos) == { n \in 1..Len(pos) : n % 2 = 1 }

OddGroup(e) == e.group % 2 = 1

\* pos lies in an item the iteration of an enclosing sequence never reached
Pruned(ds, pos) ==
    \E n \in ElemPrefixLens(pos) :
        /\ n < Len(pos)
        /\ ElemAt(ds, SubSeq(pos, 1, n)).fail.raises
        /\ pos[n + 1] >= ElemAt(ds, SubSeq(pos, 1, n)).fail.at

\* pos is a private element or lies inside one
InPrivate(ds, pos) ==
    \E n \in ElemPrefixLens(pos) : OddGroup(ElemAt(ds, SubSeq(pos, 1, n)))

VisitedPos(ds, incl_priv) ==
    { p \in PosIn(ds, <<>>) : ~Pruned(ds, p) /\ (incl_priv \/ ~InPrivate(ds, p)) }

RaisedPos(ds, incl_priv) ==
    { p \in VisitedPos(ds, incl_priv) :
        ElemAt(ds, p).VR = "SQ" /\ ElemAt(ds, p).fail.raises }

Returned == fpc = "returned"

RecIdx == 1..Len(results)

\* C6: with include_private = False no returned record is flagged private,
\* none has an odd group, and none belongs to an element inside a private
\* (skipped) sequence element.
C6_PrivacyFilter ==
    (Returned /\ ~include_private) =>
        \A i \in RecIdx :
            /\ ~results[i].private
            /\ results[i].group % 2 = 0
            /\ ~InPrivate(dset, results[i].pos)

\* a public element inside a private sequence that itself sits in an item
\* of a walked public sequence, and records returned from that item
C6_Witness ==
    /\ Returned /\ ~include_private
    /\ \E p \in PosIn(dset, <<>>) :
          /\ Len(p) = 5
          /\ ~OddGroup(ElemAt(dset, p))
          /\ OddGroup(ElemAt(dset, SubSeq(p, 1, 3)))
          /\ ElemAt(dset, SubSeq(p, 1, 3)).VR = "SQ"
          /\ ~OddGroup(ElemAt(dset, <<p[1]>>))
          /\ \E i \in RecIdx :
                Len(results[i].pos) = 3 /\ SubSeq(results[i].pos, 1, 2) = SubSeq(p, 1, 2)

\* C7: the number of returned records is the number of visited (non-skipped,
\* reached) elements plus one for each visited sequence element whose item
\* iteration raised.
C7_RecordCount ==
    Returned =>
        Len(results) = Cardinality(VisitedPos(dset, include_private))
                       + Cardinality(RaisedPos(dset, include_private))

C7_Witness ==
    /\ Returned
    /\ Cardinality(RaisedPos(dset, include_private)) >= 2
    /\ Cardinality(VisitedPos(dset, include_private))
         < Cardinality(PosIn(dset, <<>>))
    /\ Len(results) >= 6

\* the label of an element as the path uses it, and the tag string written out
ClaimLabel(e) ==
    IF e.keyword # "" THEN e.keyword
    ELSE IF e.name # "" THEN e.name
    ELSE _format_tag(<<e.group, e.element>>)

ParentPos(pos) == SubSeq(pos, 1, Len(pos) - 2)

PreOrderLess(p, q) ==
    \/ Len(p) < Len(q) /\ SubSeq(q, 1, Len(p)) = p
    \/ \E k \in 1..Len(p) :
          /\ k <= Len(q)
          /\ SubSeq(p, 1, k - 1) = SubSeq(q, 1, k - 1)
          /\ p[k] < q[k]

\* the place of a record in the pre-order: the element's position, and for the
\* record of the except branch the place after the element's last item
OrderKey(r) ==
    IF r.synthetic THEN Append(r.pos, Len(ElemAt(dset, r.pos).items)) ELSE r.pos

\* C9: records come in depth-first pre-order: a sequence element's record
\* before the records of its descendants, item i before item i+1, a
\* sequence's whole subtree before its next sibling, and siblings in the
\* tree's own (ascending tag) order.
C9_PreOrder ==
    Returned =>
        \A i, j \in RecIdx :
            (i < j) =>
                /\ PreOrderLess(OrderKey(results[i]), OrderKey(results[j]))
                /\ ( /\ ~results[i].synthetic /\ ~results[j].synthetic
                      /\ Len(results[i].pos) = Len(results[j].pos)
                      /\ ParentPos(Append(results[i].pos, 0))
                           = ParentPos(Append(results[j].pos, 0)) )
                    => TagLess(<<results[i].group, results[i].element>>,
                               <<results[j].group, results[j].element>>)

\* two items walked, each with a nested sequence that has records of its own,
\* and a sibling following the outer sequence
C9_Witness ==
    /\ Returned
    /\ \E a, b, c, d \in RecIdx :
          /\ a < b /\ b < c /\ c < d
          /\ Len(results[a].pos) = 5 /\ results[a].pos[2] = 0
          /\ Len(results[b].pos) = 3 /\ results[b].pos[2] = 0
          /\ Len(results[c].pos) = 5 /\ results[c].pos[2] = 1
          /\ Len(results[d].pos) = 1

RECURSIVE Repair(_)
\* the same tree with every item iteration succeeding
Repair(ds) ==
    [k \in 1..Len(ds) |->
        [ds[k] EXCEPT !.fail = IF ds[k].VR = "SQ" THEN NoRaise ELSE @,
                      !.items = [i \in 1..Len(ds[k].items) |-> Repair(ds[k].items[i])]]]

\* C10: for each walked sequence element whose item iteration raises there is
\* exactly one synthetic record, with the element's path and tag and the
\* value "<sequence read error: {error}>"; no record stems from an item at or
\* after the raising one; no record of the subtree follows the synthetic
\* record; and all other elements are flattened exactly as in the tree whose
\* iterations all succeed.
C10_SequenceReadError ==
    Returned =>
        LET clean == extract_dicom_metadata(Repair(dset), include_private,
                                            include_pixel_data, max_value_length)
        IN  /\ \A p \in RaisedPos(dset, include_private) :
                  \E i, n \in RecIdx :
                      /\ results[i].synthetic /\ results[i].pos = p
                      /\ ~results[n].synthetic /\ results[n].pos = p /\ n < i
                      /\ results[i].value = "<sequence read error: bad item>"
                      /\ results[i].path = results[n].path
                      /\ results[i].tag = results[n].tag
                      /\ \A j \in RecIdx :
                            /\ (results[j].synthetic /\ results[j].pos = p) => j = i
                            /\ (j > i) => ~( /\ Len(results[j].pos) > Len(p)
                                             /\ SubSeq(results[j].pos, 1, Len(p)) = p )
            /\ \A i \in RecIdx :
                  /\ ~Pruned(dset, results[i].pos)
                  /\ results[i].synthetic
                       => results[i].pos \in RaisedPos(dset, include_private)
            /\ SelectSeq(results, LAMBDA r : ~r.synthetic)
                 = SelectSeq(clean, LAMBDA r : ~Pruned(dset, r.pos))


\* an outer sequence raising at its second item, records of the first item
\* returned, the second item holding elements, and a sibling record after the
\* synthetic one
C10_Witness ==
    /\ Returned
    /\ \E i, j, k \in RecIdx :
          /\ j < i /\ i < k
          /\ results[i].synthetic /\ Len(results[i].pos) = 1
          /\ ElemAt(dset, results[i].pos).fail.at = 1
          /\ Len(ElemAt(dset, results[i].pos).items) = 2
          /\ Len(ElemAt(dset, results[i].pos).items[2]) > 0
          /\ Len(results[j].pos) = 3 /\ SubSeq(results[j].pos, 1, 1) = results[i].pos
          /\ Len(results[k].pos) = 1

(***************************************************************************)
(* Statements about the constructor.                                       *)
(***************************************************************************)
\* the tree classifies Valid: the constructor reaches line 172
ClassifiesValid(tree) ==
    /\ Has(tree, T_Modality)
    /\ \A c \in { Classify(ReadFields(NewInstance(tree), 1)) } :
          c.exc = NoException /\ c.self.valid

\* the identifying top-level fields and the placeholder each is to hold
IdentifyingPlaceholders ==
    { <<T_OperatorsName, <<"Anonymized Operator">> >>,
      <<T_PatientName, <<"Anonymized Patient">> >>,
      <<T_PatientAddress, <<"Anonymized Patient Address">> >>,
      <<T_PatientSex, <<"O">> >>,
      <<T_PatientSize, <<"1.80">> >>,
      <<T_PatientWeight, <<"80">> >>,
      <<T_InstitutionName, <<"Anonymized Institute">> >>,
      <<T_InstitutionAddress, <<"Anonymized Instituteaddress">> >>,
      <<T_ReferringPhysicianName, <<"Anonymized Physician">> >>,
      <<T_PerformingPhysicianName, <<"Anomized perf. Physician">> >>,
      <<T_StationName, <<"Anonymized Station">> >>,
      <<T_ReasonForStudy, <<"Anonymized Reason">> >>,
      <<T_StudyComments, <<"Anonymized Patient Comments">> >>,
      <<T_CurrentPatientLocation, <<"Anonymized Patient Location">> >>,
      <<T_PatientHistory, <<"Anonymized Patient History">> >> }

\* every literal the constructor writes into a tree
PlaceholderLiterals ==
    { DirectFields[k].ph : k \in 1..Len(DirectFields) }
        \cup { PrevTargets[k].ph : k \in 1..Len(PrevTargets) }
        \cup { <<"Anonymized Manufacturer">>, <<"Anonymized Institutename">>,
               OperatorReadPlaceholder }

\* the listed fields other than the patient ID hold their placeholders in d
ListedFieldsReplaced(src, d) ==
    \A f \in IdentifyingPlaceholders :
        Has(src, f[1]) => (Has(d, f[1]) /\ Get(d, f[1]).value = f[2])

BirthDateKept(src, d) ==
    Has(src, T_PatientBirthDate) =>
        ( /\ Has(d, T_PatientBirthDate)
          /\ Get(d, T_PatientBirthDate).value = Get(src, T_PatientBirthDate).value )

SavedIdx == 1..Len(out_files)

\* C1: in every tree persisted by the anonymizing constructor each listed
\* identifying field present in the source tree holds its placeholder, the
\* patient ID included, and the birth date holds its original value.
C1_IdentifyingFieldsReplaced ==
    \A i \in SavedIdx :
        /\ ListedFieldsReplaced(disk, out_files[i].data)
        /\ Has(disk, T_PatientID) =>
              ( /\ Has(out_files[i].data, T_PatientID)
                /\ Get(out_files[i].data, T_PatientID).value \in PlaceholderLiterals )
        /\ BirthDateKept(disk, out_files[i].data)

\* the nested targets: container, whether through (0400,0550), leaf, literal
NestedTargets ==
    { [c |-> T_ContributingEquipment, deep |-> FALSE, leaf |-> T_Manufacturer,
       ph |-> <<"Anonymized Manufacturer">>],
      [c |-> T_ContributingEquipment, deep |-> FALSE, leaf |-> T_InstitutionName,
       ph |-> <<"Anonymized Institutename">>],
      [c |-> T_OriginalAttributes, deep |-> TRUE, leaf |-> T_AccessionNumber,
       ph |-> <<"0123456789">>],
      [c |-> T_OriginalAttributes, deep |-> TRUE, leaf |-> T_ReferringPhysicianName,
       ph |-> <<"Anonymized Physician">>],
      [c |-> T_OriginalAttributes, deep |-> TRUE, leaf |-> T_PatientName,
       ph |-> <<"Anonymized Patient">>],
      [c |-> T_OriginalAttributes, deep |-> TRUE, leaf |-> T_PatientID,
       ph |-> <<"Anonymized PatID">>],
      [c |-> T_OriginalAttributes, deep |-> TRUE, leaf |-> T_CurrentPatientLocation,
       ph |-> <<"Anonymized Pat Location">>],
      [c |-> T_OriginalAttributes, deep |-> FALSE, leaf |-> T_SourceOfPreviousValues,
       ph |-> <<"Anonymized Source of Previous Values">>] }

\* the target's leaf exists in tree d
Resolves(d, t) ==
    /\ Has(d, t.c)
    /\ Len(Get(d, t.c).items) > 0
    /\ IF t.deep
       THEN /\ Has(Get(d, t.c).items[1], T_ModifiedAttributes)
            /\ Len(Get(Get(d, t.c).items[1], T_ModifiedAttributes).items) > 0
            /\ Has(Get(Get(d, t.c).items[1], T_ModifiedAttributes).items[1], t.leaf)
       ELSE Has(Get(d, t.c).items[1], t.leaf)

LeafValue(d, t) ==
    IF t.deep
    THEN Get(Get(Get(d, t.c).items[1], T_ModifiedAttributes).items[1], t.leaf).value
    ELSE Get(Get(d, t.c).items[1], t.leaf).value

\* every nested target that exists in src holds its literal in d
NestedTargetsReplaced(src, d) ==
    \A t \in NestedTargets :
        Resolves(src, t) => (Resolves(d, t) /\ LeafValue(d, t) = t.ph)

NoPrivateElement(d) == \A p \in PosIn(d, <<>>) : ~OddGroup(ElemAt(d, p))

\* C2: the anonymizing constructor on a tree that classifies Valid, whatever
\* the shape of the two containers, is not left by an exception of the
\* nested pass: every nested target that exists is overwritten, the private
\* elements are stripped, the direct fields are rewritten and the tree is
\* persisted (a failing writer aside).
C2_NestedFailureNeverAborts ==
    ( /\ cpc \in {"constructed", "raised"} /\ ananomize_file
      /\ ClassifiesValid(disk) /\ raised # "OSError" )
    => /\ raised = NoException
       /\ Len(out_files) = 1
       /\ \A i \in SavedIdx :
             /\ NestedTargetsReplaced(disk, out_files[i].data)
             /\ NoPrivateElement(out_files[i].data)
             /\ ListedFieldsReplaced(disk, out_files[i].data)

\* C4: a tree handed to save_as holds no private element at any depth, and
\* both passes have run on it: the nested targets that exist and the listed
\* direct fields hold their literals.
C4_NoPrivateAtSave ==
    \A i \in SavedIdx :
        /\ NoPrivateElement(out_files[i].data)
        /\ NestedTargetsReplaced(disk, out_files[i].data)
        /\ ListedFieldsReplaced(disk, out_files[i].data)

\* a persisted tree whose source held private elements at the top level and
\* two sequence levels down, and nested targets in both containers
C4_Witness ==
    /\ Len(out_files) = 1
    /\ \E p \in PosIn(disk, <<>>) : Len(p) = 5 /\ OddGroup(ElemAt(disk, p))
    /\ \E p \in PosIn(disk, <<>>) : Len(p) = 1 /\ OddGroup(ElemAt(disk, p))
    /\ \A t \in NestedTargets : Resolves(disk, t)
(***************************************************************************)
(* Statements about parse_study_dirs.                                      *)
(***************************************************************************)
FileIdx == 1..Len(files)

Finished == ppc = "returned" /\ root_dir_exists

WriterFailed == \E k \in 1..Len(logfile) : logfile[k] = "EXCEPTION: OSError"

\* C3: when parse_study_dirs has run with ananomize_dcm = True and returned,
\* every .dcm file under root_dir (files the decoder rejects and failures of
\* the writer aside) has an anonymized copy persisted under out_dir at the
\* same relative path and file name.
C3_EveryFileHasCopy ==
    (Finished /\ ananomize_dcm /\ ~WriterFailed) =>
        \A i \in FileIdx :
            (files[i].ext = ".dcm" /\ files[i].decodable) =>
                \E j \in 1..Len(out_files) :
                    out_files[j].path
                      = PathJoin(PathJoin(OutDir, JoinParts(files[i].rel_dir)),
                                 files[i].stem \o files[i].ext)

\* the columns of the summary row taken from a top-level field
TopColumns ==
    { <<2, T_StudyDescription>>, <<3, T_SeriesDescription>>,
      <<4, T_InstitutionName>>, <<5, T_InstitutionAddress>>,
      <<6, T_ReferringPhysicianName>>, <<7, T_PerformingPhysicianName>>,
      <<8, T_StationName>>, <<9, T_OperatorsName>>, <<10, T_PatientName>>,
      <<11, T_PatientBirthDate>>, <<12, T_PatientSex>>, <<13, T_PatientSize>>,
      <<14, T_PatientWeight>>, <<15, T_PatientAddress>>,
      <<24, T_ReasonForStudy>>, <<25, T_StudyComments>>,
      <<26, T_CurrentPatientLocation>>, <<27, T_PatientHistory>> }

\* the columns taken from the two containers: column, container, whether
\* through (0400,0550), leaf
NestedColumns ==
    { <<17, T_OriginalAttributes, TRUE, T_AccessionNumber>>,
      <<18, T_OriginalAttributes, TRUE, T_ReferringPhysicianName>>,
      <<19, T_OriginalAttributes, TRUE, T_PatientName>>,
      <<20, T_OriginalAttributes, TRUE, T_PatientID>>,
      <<21, T_OriginalAttributes, FALSE, T_SourceOfPreviousValues>>,
      <<22, T_ContributingEquipment, FALSE, T_Manufacturer>>,
      <<23, T_ContributingEquipment, FALSE, T_InstitutionName>> }

\* row r holds in each column the value of the decoded tree d
RowHoldsDecodedValues(r, d) ==
    /\ \A c \in TopColumns :
          Has(d, c[2]) => r[c[1]] = Get(d, c[2]).value
    /\ \A c \in NestedColumns :
          \A t \in { [c |-> c[2], deep |-> c[3], leaf |-> c[4]] } :
              Resolves(d, t) => r[c[1]] = LeafValue(d, t)

\* C5: every row of _original_list holds, column by column, the value the
\* field had in the tree the decoder gave for the row's file, the operator
\* name and the manufacturer and institute of the exposure container
\* (0018,A001) included.
C5_OriginalRowsHoldDecodedValues ==
    \A k \in 1..Len(_original_list) :
        \A i \in FileIdx :
            (_original_list[k][1] = <<source_file(files[i])>>)
                => RowHoldsDecodedValues(_original_list[k], files[i].tree)

(***************************************************************************)
(* Statements about the value formatter.                                   *)
(***************************************************************************)
\* the element record i was made from
RecElem(i) == ElemAt(dset, results[i].pos)

\* record i carries a value the formatter took from the element's value
\* (it is no sequence record, no omitted pixel data, no except-branch record)
FormattedRecord(i) ==
    /\ ~results[i].synthetic
    /\ RecElem(i).VR # "SQ"
    /\ ~(TagOf(RecElem(i)) = PixelDataTag /\ ~include_pixel_data)

\* the rendering of record i before any truncation
Rendering(i) ==
    IF results[i].synthetic THEN "<sequence read error: " \o SeqErrorText \o ">"
    ELSE IF RecElem(i).VR = "SQ" THEN "<Sequence>"
    ELSE IF TagOf(RecElem(i)) = PixelDataTag /\ ~include_pixel_data
    THEN "<PixelData omitted>"
    ELSE Stringified(RecElem(i))

\* value v obeys the truncation law for rendering s and limit n
ObeysTruncationLaw(v, s, n) ==
    /\ Len(v) <= n + 1
    /\ Len(s) <= n => v = s
    /\ Len(s) > n => v = SubSeq(s, 1, n) \o Ellipsis

\* C11 as stated: for every element and every max_value_length n >= 0 the
\* value of the emitted record has length at most n+1, equals the
\* rendering s when len(s) <= n and is otherwise the first n characters of
\* s followed by one ellipsis character.
C11_TruncationLawEveryRecord ==
    Returned =>
        \A i \in RecIdx :
            ObeysTruncationLaw(results[i].value, Rendering(i), max_value_length)

\* C11 amended: the truncation law holds for every record whose value the
\* formatter took from the element's value (or from the except branch of
\* the stringification); the records of sequence elements, of omitted
\* pixel data and of the sequence except branch carry their fixed text
\* unshortened whatever max_value_length is.
C11_TruncationLaw ==
    Returned =>
        \A i \in RecIdx :
            IF FormattedRecord(i)
            THEN ObeysTruncationLaw(results[i].value, Rendering(i), max_value_length)
            ELSE results[i].value = Rendering(i)

\* a call with limit 4 that shortened one value and left another, of
\* exactly 4 characters, as it was, next to a sequence record
C11_Witness ==
    /\ Returned
    /\ max_value_length = ShortValueLength
    /\ \E i, j, k \in RecIdx :
          /\ FormattedRecord(i) /\ Len(Rendering(i)) > ShortValueLength
          /\ results[i].value = SubSeq(Rendering(i), 1, ShortValueLength) \o Ellipsis
          /\ FormattedRecord(j) /\ Len(Rendering(j)) = ShortValueLength
          /\ results[j].value = Rendering(j)
          /\ ~FormattedRecord(k) /\ Len(results[k].value) > ShortValueLength + 1

\* the visited elements whose value raises in the formatter's try block
UnprintablePos ==
    { p \in VisitedPos(dset, include_private) :
        ElemAt(dset, p).VR # "SQ" /\ ElemAt(dset, p).fail.raises }

\* the text the except branch gives, cut as every formatted value is
UnprintableValue ==
    LET s == "<unprintable: " \o StrErrorText \o ">"
    IN  IF Len(s) > max_value_length
        THEN SubSeq(s, 1, max_value_length) \o Ellipsis ELSE s

\* C12: an element whose value cannot be stringified never makes the call
\* raise: its record carries "<unprintable: {message}>", cut like every
\* other value, and the walk goes on, so that every element the walk visits
\* (the ones after the failing element included) has its record.
C12_FormatterNeverPropagates ==
    Returned =>
        /\ \A p \in UnprintablePos :
              \E i \in RecIdx :
                  /\ results[i].pos = p /\ ~results[i].synthetic
                  /\ results[i].value = UnprintableValue
        /\ \A q \in VisitedPos(dset, include_private) :
              \E i \in RecIdx : results[i].pos = q /\ ~results[i].synthetic

\* a returned call with the full text, on a tree with a failing value at
\* the top level and one inside an item, each followed by further records
C12_Witness ==
    /\ Returned
    /\ max_value_length = DefaultMaxValueLength
    /\ \E i, j \in RecIdx :
          /\ results[i].pos \in UnprintablePos /\ Len(results[i].pos) = 1
          /\ results[j].pos \in UnprintablePos /\ Len(results[j].pos) = 3
          /\ results[i].value = "<unprintable: bad value>"
          /\ results[j].value = "<unprintable: bad value>"
          /\ i < j /\ j < Len(results)

(***************************************************************************)
(* Statements about the classifier.                                        *)
(***************************************************************************)
\* the constructor call has ended, by returning or by raising
Constructed == cpc \in {"constructed", "raised"}

EndedValid == raised = NoException /\ img # None /\ img.valid = TRUE

EndedInvalid == raised = NoException /\ img # None /\ img.valid = FALSE

LacksImageType == ~Has(disk, T_ImageType)

ImageTypeExcluded ==
    Has(disk, T_ImageType) /\ Get(disk, T_ImageType).value \in exeption_list

ImageTypeAccepted ==
    Has(disk, T_ImageType) /\ Get(disk, T_ImageType).value \notin exeption_list

ModalityIs(S) == Has(disk, T_Modality) /\ Get(disk, T_Modality).value \in S

NoGeometry ==
    img.voxelsize = Unset /\ img.slope = Unset /\ img.intercept = Unset

NoRequiredField ==
    /\ img.pat_name = Unset /\ img.pat_id = Unset /\ img.studydate = Unset
    /\ img.imagesize = Unset /\ img.datatype = Unset

\* no pass has touched the tree (the operator name, overwritten while the
\* fields are read at line 101, aside), nothing was logged, nothing persisted
NothingRewritten ==
    /\ Len(img.data) = Len(disk)
    /\ \A k \in 1..Len(disk) :
          TagOf(disk[k]) # T_OperatorsName => img.data[k] = disk[k]
    /\ logfile = <<>>
    /\ out_files = <<>>

\* C13: for every decoded tree the classification ends with the instance
\* Valid or Invalid, never by an exception leaving the constructor (stated
\* for calls without anonymization, where the constructor ends with the
\* classification).
C13_ClassifierTotal ==
    (Constructed /\ ~ananomize_file) => (EndedValid \/ EndedInvalid)

\* C14: for every tree without the image-type field the instance ends
\* Invalid, with no geometry, no required field populated, and no
\* anonymization or persistence done.
C14_NoImageTypeInvalid ==
    (Constructed /\ LacksImageType) =>
        (EndedInvalid /\ NoGeometry /\ NoRequiredField /\ NothingRewritten)

\* C15: for every tree whose image type is in the exclusion table the
\* instance ends Invalid, whatever the modality and the other fields are.
C15_ExcludedInvalid ==
    (Constructed /\ ImageTypeExcluded) => EndedInvalid

\* the geometry derivation of the tree fails for a missing field
GeometryFieldMissing ==
    \/ /\ ModalityIs(VolumetricModalities)
       /\ ~Has(disk, T_ImagePositionPatient) \/ ~Has(disk, T_PixelSpacing)
    \/ /\ ModalityIs({<<"CT">>})
       /\ ~Has(disk, T_RescaleSlope) \/ ~Has(disk, T_RescaleIntercept)

\* C16: when the geometry derivation fails for a missing field the instance
\* ends Invalid and holds no voxel size, no slope and no intercept.
C16_GeometryFailureNoPartial ==
    (Constructed /\ ImageTypeAccepted /\ GeometryFieldMissing) =>
        (EndedInvalid /\ NoGeometry)

\* C17: for every tree with an accepted image type and modality SEG the
\* slice thickness is set to zero, no voxel size, slope or intercept is
\* set, and the instance ends Valid (stated for calls without
\* anonymization).
C17_SegmentationValid ==
    (Constructed /\ ~ananomize_file /\ ImageTypeAccepted /\ ModalityIs({<<"SEG">>})) =>
        /\ EndedValid
        /\ NoGeometry
        /\ Has(img.data, <<\h0018, \h0050>>)
        /\ Get(img.data, <<\h0018, \h0050>>).value = <<"0">>

(***************************************************************************)
(* Statements about the grouping.                                          *)
(***************************************************************************)
GroupIdx == 1..Len(series_dict)

\* the files of the walk taken so far that carry the path p
FilesNamed(p) == { i \in 1..fidx : source_file(files[i]) = p }

\* the key of a file, from its decoded tree and its directory
KeyOfFile(f) ==
    << IF Has(f.tree, T_PatientID) /\ Get(f.tree, T_PatientID).value # <<"">>
       THEN Get(f.tree, T_PatientID).value ELSE <<"UNKNOWN_PATIENT">>,
       IF Has(f.tree, T_SeriesInstanceUID)
       THEN StrOfValue(Get(f.tree, T_SeriesInstanceUID).value)
       ELSE JoinParts(f.rel_dir) >>

\* one group per key; each member is a file taken so far whose key is the
\* group's; the members stand in the order the files were taken; the
\* representative was read from the first member
GroupsWellFormed ==
    /\ \A j, k \in GroupIdx :
          series_dict[j].key = series_dict[k].key => j = k
    /\ \A k \in GroupIdx :
          LET g == series_dict[k]
          IN  /\ Len(g.files) >= 1
              /\ g.orgDCM # None
              /\ \A m \in 1..Len(g.files) :
                    \E i \in FilesNamed(g.files[m]) :
                        /\ KeyOfFile(files[i]) = g.key
                        /\ \A n \in 1..(m - 1) :
                              \A h \in FilesNamed(g.files[n]) : h < i
              /\ \A i \in FilesNamed(g.files[1]) :
                    /\ g.orgDCM._modality = Get(files[i].tree, T_Modality).value
                    /\ g.relative_path = files[i].rel_dir

\* a step keeps every group's key and representative, at most appends the
\* current file to a member list, and founds a new group with the current
\* file and its instance alone
GroupsOnlyGrow ==
    /\ Len(series_dict') >= Len(series_dict)
    /\ \A k \in GroupIdx :
          /\ series_dict'[k].key = series_dict[k].key
          /\ series_dict'[k].orgDCM = series_dict[k].orgDCM
          /\ series_dict'[k].relative_path = series_dict[k].relative_path
          /\ \/ series_dict'[k].files = series_dict[k].files
             \/ series_dict'[k].files = Append(series_dict[k].files, source_file(Cur))
    /\ \A k \in (Len(series_dict) + 1)..Len(series_dict') :
          /\ series_dict'[k].files = <<source_file(Cur)>>
          /\ series_dict'[k].orgDCM = orgDCM
          /\ series_dict'[k].key = KeyOfFile(Cur)

\* C18: after any sequence of processed files series_dict holds one group
\* per key of the grouped files; the representative of a group is the
\* instance of the first file seen for the key and is never replaced, a
\* later file of the key is only appended to the member list, and the
\* first member is the file the representative was read from.
C18_FirstValidWins == []GroupsWellFormed /\ [][GroupsOnlyGrow]_vars

\* two files of different content and the same key ("PID-1", "1.2.3") have
\* been grouped: one group, two members, the first file's instance
C18_Witness ==
    /\ ppc = "walk" /\ fidx = 2
    /\ Len(series_dict) = 1
    /\ series_dict[1].key = << <<"PID-1">>, "1.2.3" >>
    /\ series_dict[1].files = <<source_file(files[1]), source_file(files[2])>>
    /\ files[1].tree # files[2].tree
    /\ series_dict[1].orgDCM._modality = Get(files[1].tree, T_Modality).value
    /\ series_dict[1].orgDCM._modality # Get(files[2].tree, T_Modality).value

(***************************************************************************)
(* Statements about the series table.                                      *)
(***************************************************************************)
\* bytes.decode('utf-8')
Utf8Decode(b) == b.bytes

SeriesTableWritten == ppc = "returned" /\ Len(tables) > 0

SeriesRows == tables[1].rows

\* the patient identifier of the file at path p, as the decoded tree holds it
PatientIdAt(p) ==
    { StrOfValue(Get(files[i].tree, T_PatientID).value) : i \in FilesNamed(p) }

\* C19: the pseudo-identifiers written to the series table cannot be turned
\* back into the patient identifier: neither the patid column nor the id
\* column of a row yields, decoded, the patient identifier of the row's
\* series.
C19_PseudoIdsOneWay ==
    SeriesTableWritten =>
        \A k \in 1..Len(SeriesRows) :
            /\ Utf8Decode(SeriesRows[k].patid) \notin PatientIdAt(SeriesRows[k].seriespath)
            /\ SeriesRows[k].id \notin PatientIdAt(SeriesRows[k].seriespath)

(***************************************************************************)
(* Statements about a failure of the writer.                               *)
(***************************************************************************)
\* the step in which save_as raised while the current file was anonymized
SaveFailedStep ==
    /\ ppc = "ano"
    /\ Len(logfile') >= Len(logfile) + 2
    /\ logfile'[Len(logfile')] = "EXCEPTION: OSError"

\* the files taken so far for which the log holds a failure of the writer
SaveFailedFiles ==
    { i \in 1..fidx :
        \E k \in 1..(Len(logfile) - 1) :
            /\ logfile[k] = "ERROR: " \o source_file(files[i])
            /\ logfile[k + 1] = "EXCEPTION: OSError" }

\* the failing step logs the file and the exception after what was logged
\* before, records nothing, keeps every row, group and copy, does not end
\* the call, and leaves the loop at the next file
FailureIsLocal ==
    SaveFailedStep =>
        /\ logfile'[Len(logfile') - 1] = "ERROR: " \o source_file(Cur)
        /\ SubSeq(logfile', 1, Len(logfile)) = logfile
        /\ _original_list' = _original_list
        /\ _ananomized_list' = _ananomized_list
        /\ series_dict' = series_dict
        /\ out_files' = out_files
        /\ json_files' = json_files
        /\ ret' = ret
        /\ fidx' = fidx
        /\ ppc' = "walk"

\* a file whose copy could not be written has no copy, no anonymized row
\* and no place in a group; the call ends only when every file was taken
FailedFileAbandoned ==
    /\ \A i \in SaveFailedFiles :
          /\ \A k \in 1..Len(out_files) : out_files[k].path # target_file(files[i])
          /\ \A k \in 1..Len(_ananomized_list) :
                _ananomized_list[k][1] # <<target_file(files[i])>>
          /\ \A g \in GroupIdx :
                \A n \in 1..Len(series_dict[g].files) :
                    series_dict[g].files[n] # source_file(files[i])
    /\ (root_dir_exists /\ ppc \in {"returned", "raised"}) => fidx = Len(files)

\* C20: when save_as raises while file k is anonymized the failure is
\* logged, file k is abandoned, the rows and groups recorded before stay as
\* they are, and the walk goes on through every remaining file.
C20_PersistenceFailureLocal == []FailedFileAbandoned /\ [][FailureIsLocal]_vars

\* the writer failed on the first file and the second file was then
\* anonymized, persisted and grouped
C20_Witness ==
    /\ fidx = 2 /\ ppc = "walk"
    /\ SaveFailedFiles = {1}
    /\ Len(out_files) = 1 /\ out_files[1].path = target_file(files[2])
    /\ Len(_original_list) = 2
    /\ Len(_ananomized_list) = 1
    /\ \E g \in GroupIdx : series_dict[g].files = <<source_file(files[2])>>

(***************************************************************************)
(* Statements about the propagation of failures.                           *)
(***************************************************************************)
\* a step that ends the work on the current file before its grouping
StopsFileEarly ==
    ppc \in {"org", "meta", "row", "ano", "anorow"} /\ ppc' = "walk"

\* C21: the only failure that stops the work on a single file early is a
\* failure of the writer, every other failure being isolated so that the
\* file's remaining steps still run; and only the empty-input condition
\* makes the whole call raise.
C21_PropagationPolicy ==
    /\ [][StopsFileEarly =>
            /\ Len(logfile') >= 1
            /\ logfile'[Len(logfile')] = "EXCEPTION: OSError"]_vars
    /\ [](ppc = "raised" => ret \in {NoFilesError, NoFoldersError})

\* the call has ended
Ended == ppc \in {"returned", "raised"}

\* the run found no eligible file: no root, no .dcm file, or no group
NoEligibleFile ==
    ~root_dir_exists \/ dicom_file_count = 0 \/ Len(series_dict) = 0

\* C22: a run that ends having found no eligible file fails hard: an error
\* is raised to the caller, the log sink is closed, and no result and no
\* table is returned or written.
C22_NoInputFailsHard ==
    (Ended /\ NoEligibleFile) =>
        /\ ppc = "raised"
        /\ ret \in {NoFilesError, NoFoldersError}
        /\ ~log_open
        /\ tables = <<>>

(***************************************************************************)
(* Statements about the log of the nested pass.                            *)
(***************************************************************************)
\* the nested targets the tree gives no leaf for
UnresolvedTargets(d) == { t \in NestedTargets : ~Resolves(d, t) }

NestedContainerMissing ==
    ~Has(disk, T_ContributingEquipment) \/ ~Has(disk, T_OriginalAttributes)

\* C23: the anonymizing constructor on a Valid tree that lacks a nested
\* container (a failing writer aside) writes exactly one error entry, two
\* lines, for each nested target it could not overwrite, and every direct
\* field present in the tree ends with its placeholder.
C23_OneErrorPerMissingTarget ==
    ( /\ Constructed /\ ananomize_file /\ ClassifiesValid(disk)
      /\ NestedContainerMissing /\ raised # "OSError" )
    => /\ raised = NoException
       /\ Len(logfile) = 2 * Cardinality(UnresolvedTargets(disk))
       /\ ListedFieldsReplaced(disk, img.data)

(***************************************************************************)
(* Statements about the direct-field pass.                                 *)
(***************************************************************************)
\* the instance as it is when the fields of the decoded tree were read
ReadInstance == ReadFields(NewInstance(disk), 1)

\* the constructor has anonymized the tree and returned
Anonymized ==
    Constructed /\ ananomize_file /\ raised = NoException /\ img.valid

\* C24: running the direct-field pass a second time changes nothing: no
\* field of the tree and no summary attribute of the instance differs from
\* what one run left, on the decoded tree and on the instance the
\* anonymizing constructor returned.
C24_DirectPassIdempotent ==
    /\ Constructed =>
          \A x \in { ReadInstance } :
              \A once \in { DirectPass(x, 1) } : DirectPass(once, 1) = once
    /\ Anonymized => DirectPass(img, 1) = img

\* an anonymized instance whose tree held every direct field, each now
\* differing from the decoded value (the birth date, which is kept, aside)
C24_Witness ==
    /\ Anonymized
    /\ \A k \in 1..Len(DirectFields) :
          /\ Has(disk, DirectFields[k].tag)
          /\ DirectFields[k].write =>
                /\ Get(img.data, DirectFields[k].tag).value = DirectFields[k].ph
                /\ Get(disk, DirectFields[k].tag).value # DirectFields[k].ph
                /\ img[DirectFields[k].attr] = DirectFields[k].ph

(***************************************************************************)
(* Statements about the use of a persisted tree.                           *)
(***************************************************************************)
\* the tree of the anonymized instance of the current file has been written
\* by save_as and the instance is not yet disposed
PersistedTreeLive ==
    /\ ppc = "anorow" /\ anoDCM # None
    /\ \E k \in 1..Len(out_files) :
          out_files[k] = [path |-> target_file(Cur), data |-> anoDCM.data]

\* C25: once the anonymized tree has been written by save_as, the only step
\* taken on it is its disposal: no later step of the pipeline derives a row
\* or a log line from the tree or keeps the instance.
C25_PersistedTreeNotReused ==
    [][PersistedTreeLive =>
          /\ anoDCM' = None
          /\ _ananomized_list' = _ananomized_list
          /\ logfile' = logfile]_vars

(***************************************************************************)
(* Statements about the shape of a summary row.                            *)
(***************************************************************************)
\* what each column of the schema stands for, position by position: the
\* file path, an attribute of the instance, or a leaf of one of the two
\* containers (c, whether through (0400,0550), leaf)
ColumnMeaning ==
    << [col |-> "file", kind |-> "path"],
       [col |-> "Study Description", kind |-> "attr", attr |-> "_study_description"],
       [col |-> "Series Description", kind |-> "attr", attr |-> "_series_description"],
       [col |-> "Institute", kind |-> "attr", attr |-> "_institutename"],
       [col |-> "Inst Address", kind |-> "attr", attr |-> "_instituteaddress"],
       [col |-> "Physicianname", kind |-> "attr", attr |-> "_physicianname"],
       [col |-> "Performing Physician", kind |-> "attr", attr |-> "_performing_physician"],
       [col |-> "Stationname", kind |-> "attr", attr |-> "_stationname"],
       [col |-> "Opetratorsname", kind |-> "attr", attr |-> "_operatorsname"],
       [col |-> "Patientname", kind |-> "attr", attr |-> "_patientname"],
       [col |-> "Patientbirth", kind |-> "attr", attr |-> "_patientbirth"],
       [col |-> "Patientsex", kind |-> "attr", attr |-> "_patientsex"],
       [col |-> "Patientsize", kind |-> "attr", attr |-> "_patientsize"],
       [col |-> "Patientweight", kind |-> "attr", attr |-> "_patientweight"],
       [col |-> "Patientaddress", kind |-> "attr", attr |-> "_patient_address"],
       [col |-> "PatLocation", kind |-> "leaf", c |-> T_OriginalAttributes,
        deep |-> TRUE, leaf |-> T_CurrentPatientLocation],
       [col |-> "AccessionNum", kind |-> "leaf", c |-> T_OriginalAttributes,
        deep |-> TRUE, leaf |-> T_AccessionNumber],
       [col |-> "Physician", kind |-> "leaf", c |-> T_OriginalAttributes,
        deep |-> TRUE, leaf |-> T_ReferringPhysicianName],
       [col |-> "Patientname", kind |-> "leaf", c |-> T_OriginalAttributes,
        deep |-> TRUE, leaf |-> T_PatientName],
       [col |-> "patID", kind |-> "leaf", c |-> T_OriginalAttributes,
        deep |-> TRUE, leaf |-> T_PatientID],
       [col |-> "source_of_previous_vals", kind |-> "leaf",
        c |-> T_OriginalAttributes, deep |-> FALSE, leaf |-> T_SourceOfPreviousValues],
       [col |-> "manufacturer", kind |-> "leaf", c |-> T_ContributingEquipment,
        deep |-> FALSE, leaf |-> T_Manufacturer],
       [col |-> "institute", kind |-> "leaf", c |-> T_ContributingEquipment,
        deep |-> FALSE, leaf |-> T_InstitutionName],
       [col |-> "study_reason", kind |-> "attr", attr |-> "_study_reason"],
       [col |-> "study_comments", kind |-> "attr", attr |-> "_study_comments"],
       [col |-> "patient_location", kind |-> "attr", attr |-> "_cur_patient_location"],
       [col |-> "patient_history", kind |-> "attr", attr |-> "_patient_history"] >>

\* the values a column that is read from a container takes when it is not
\* read
ColumnDefaults == { NotDetermined, <<"default">> }

\* entry v is what column meaning m names, for instance inst and path p
EntryIsField(v, m, inst, p) ==
    IF m.kind = "path" THEN v = <<p>>
    ELSE IF m.kind = "attr" THEN v = inst[m.attr]
    ELSE IF m.leaf = T_CurrentPatientLocation
    THEN v \in ColumnDefaults
            \/ (Resolves(inst.data, m) /\ v = LeafValue(inst.data, m))
    ELSE IF Resolves(inst.data, m) THEN v = LeafValue(inst.data, m)
    ELSE v \in ColumnDefaults

RowPath == IF ananomize_file THEN TargetPath ELSE SourcePath

PlaceholderColumns ==
    { [col |-> c[1], tag |-> c[2], ph |-> f[2]] :
        <<c, f>> \in { x \in TopColumns \X IdentifyingPlaceholders :
                          x[1][2] = x[2][1] } }

\* row r carries the placeholder of every direct identifying field tree t has
RowCarriesPlaceholders(r, t) ==
    \A c \in PlaceholderColumns : Has(t, c.tag) => r[c.col] = c.ph

AnonymizedRowAppended ==
    /\ ppc = "anorow"
    /\ Len(_ananomized_list') = Len(_ananomized_list) + 1

\* C27: every row appended to _ananomized_list carries the fixed placeholder
\* of each direct identifying field its source file has, never the file's
\* value, whether the file classifies Valid or Invalid.
C27_AnonymizedRowsCarryPlaceholders ==
    [][AnonymizedRowAppended =>
          RowCarriesPlaceholders(
              _ananomized_list'[Len(_ananomized_list')], Cur.tree)]_vars

(***************************************************************************)
(* Statements about the tree of an instance built without anonymization.   *)
(***************************************************************************)
\* the original instance of the current file was built and its metadata
\* exported
OriginalExported == ppc = "row" /\ orgDCM # None /\ Len(json_files) >= 1

\* the tags at which tree d differs from tree t: added, removed or changed
ChangedTags(t, d) ==
    { TagOf(e) : e \in { x \in {t[k] : k \in 1..Len(t)} \cup {d[k] : k \in 1..Len(d)} :
                           \/ ~Has(t, TagOf(x)) \/ ~Has(d, TagOf(x))
                           \/ Get(t, TagOf(x)) # Get(d, TagOf(x)) } }

\* C28: with anonymization off the tree is only read: once the original
\* instance is built and its metadata exported, the tree is the decoded one,
\* element for element, and the export is that of the decoded tree.
C28_ReadOnlyWithoutAnonymization ==
    OriginalExported =>
        /\ orgDCM.data = Cur.tree
        /\ json_files[Len(json_files)].meta
              = meta_data_to_json(
                    extract_dicom_metadata(Cur.tree, TRUE, FALSE,
                                           DefaultMaxValueLength))

(***************************************************************************)
(* Statements about the failures of get_patient_and_physician.             *)
(***************************************************************************)
GetRowStep == cpc = "constructed" /\ cpc' \in {"row", "row_raised"}

\* the columns read from a container that is present and does not hold them
UnreadColumns(d) ==
    { k \in 1..Len(ColumnMeaning) :
        /\ ColumnMeaning[k].kind = "leaf"
        /\ Has(d, ColumnMeaning[k].c)
        /\ ~Resolves(d, ColumnMeaning[k]) }

\* C29: get_patient_and_physician never raises: whatever the shape of the
\* exposure container and of the previous-values container, a row is
\* returned, each nested column that cannot be read holds its default, the
\* failure is logged and the other columns hold their fields.
C29_RowNeverRaises ==
    [][GetRowStep =>
          /\ cpc' = "row" /\ raised' = NoException
          /\ Len(row') = Len(_val_columns)
          /\ \A k \in 1..Len(ColumnMeaning) :
                IF k \in UnreadColumns(img.data)
                THEN row'[k] \in ColumnDefaults
                ELSE EntryIsField(row'[k], ColumnMeaning[k], img', RowPath)
          /\ UnreadColumns(img.data) # {} => Len(logfile') > Len(logfile)]_vars

(***************************************************************************)
(* Statements about the members of the groups.                             *)
(***************************************************************************)
\* no file is being processed: before the first, between two, after the last
BetweenFiles == ppc \in {"walk", "returned", "raised"}

\* the places (group, position) of series_dict at which path p is a member
Memberships(p) ==
    { <<k, m>> \in GroupIdx \X (1..MaxFiles) :
         m <= Len(series_dict[k].files) /\ series_dict[k].files[m] = p }

\* all member places: their number is the sum of numimages over the groups
AllMemberships ==
    { <<k, m>> \in GroupIdx \X (1..MaxFiles) : m <= Len(series_dict[k].files) }

\* the processed files that classify Valid
ProcessedValid ==
    { i \in 1..fidx : /\ files[i].ext = ".dcm" /\ files[i].decodable
                      /\ ClassifiesValid(files[i].tree) }

HasOriginalRow(i) ==
    \E k \in 1..Len(_original_list) :
        _original_list[k][1] = <<source_file(files[i])>>

MembershipUnique ==
    \A i \in 1..fidx : Cardinality(Memberships(source_file(files[i]))) <= 1

\* C30: conservation of grouped files: between files, each path is a member
\* of at most one group and at most once, the member counts add up to the
\* number of processed files that classified Valid, and every Valid file with
\* an original summary row is a member of exactly one group.
C30_GroupedFilesConserved ==
    BetweenFiles =>
        /\ MembershipUnique
        /\ Cardinality(AllMemberships) = Cardinality(ProcessedValid)
        /\ \A i \in ProcessedValid :
              HasOriginalRow(i) =>
                 Cardinality(Memberships(source_file(files[i]))) = 1

====
